---- MODULE Spec2Model ----
(***************************************************************************)
(* Natural-language-to-SQL pipeline of DualRAG: QueryExecutor,             *)
(* QueryValidator, QueryGenerator and SQLRAGChain.                         *)
(*                                                                         *)
(* A text is a sequence of one-character strings, so that upper(), strip() *)
(* the substring test and the regular expressions of the source are        *)
(* computed character by character.                                        *)
(***************************************************************************)
EXTENDS Integers, Sequences, FiniteSets, TLC

None == "None"

(* ------------------------------ text ---------------------------------- *)

UpperOf == ("a" :> "A") @@ ("b" :> "B") @@ ("c" :> "C") @@ ("d" :> "D") @@ ("e" :> "E") @@ ("f" :> "F") @@ ("g" :> "G") @@ ("h" :> "H") @@ ("i" :> "I") @@ ("j" :> "J") @@ ("k" :> "K") @@ ("l" :> "L") @@ ("m" :> "M") @@ ("n" :> "N") @@ ("o" :> "O") @@ ("p" :> "P") @@ ("q" :> "Q") @@ ("r" :> "R") @@ ("s" :> "S") @@ ("t" :> "T") @@ ("u" :> "U") @@ ("v" :> "V") @@ ("w" :> "W") @@ ("x" :> "X") @@ ("y" :> "Y") @@ ("z" :> "Z")

LowerLetters == DOMAIN UpperOf

UpperLetters == {UpperOf[c] : c \in LowerLetters}

Digits == <<"0","1","2","3","4","5","6","7","8","9">>

DigitChars == {Digits[i] : i \in 1..10}

Whitespace == {" ", "\n", "\t", "\r"}

\* the character U+0060 of a code fence, which a TLA+ string cannot hold
GraveAccent == "grave"

\* str.upper()
upper(s) == [i \in 1..Len(s) |-> IF s[i] \in LowerLetters THEN UpperOf[s[i]] ELSE s[i]]

\* str.lower()
lower(s) == [i \in 1..Len(s) |-> IF s[i] \in UpperLetters THEN CHOOSE c \in LowerLetters : UpperOf[c] = s[i] ELSE s[i]]

MinOf(S) == CHOOSE x \in S : \A y \in S : x <= y

MaxOf(S) == CHOOSE x \in S : \A y \in S : x >= y

\* str.strip()
strip(s) == LET keep == {i \in 1..Len(s) : s[i] \notin Whitespace}
            IN IF keep = {} THEN <<>> ELSE SubSeq(s, MinOf(keep), MaxOf(keep))

\* str.rstrip()
rstrip(s) == LET keep == {i \in 1..Len(s) : s[i] \notin Whitespace}
             IN IF keep = {} THEN <<>> ELSE SubSeq(s, 1, MaxOf(keep))

\* s.startswith(p)
startswith(s, p) == Len(s) >= Len(p) /\ SubSeq(s, 1, Len(p)) = p

\* s.endswith(p)
endswith(s, p) == Len(s) >= Len(p) /\ SubSeq(s, Len(s) - Len(p) + 1, Len(s)) = p

\* s[i:i+len(p)] == p, i counted from 1
matches_at(s, p, i) == i + Len(p) - 1 <= Len(s) /\ SubSeq(s, i, i + Len(p) - 1) = p

\* p in s
contains(s, p) == \E i \in 1..(Len(s) - Len(p) + 1) : matches_at(s, p, i)

\* s.count(c) for a one-character c
count_char(s, c) == Cardinality({i \in 1..Len(s) : s[i] = c})

\* s[:n]
Take(s, n) == SubSeq(s, 1, IF Len(s) < n THEN Len(s) ELSE n)

\* s[n:]
Drop(s, n) == SubSeq(s, n + 1, Len(s))

\* s[-n:] of a list, n > 0
LastN(s, n) == IF Len(s) <= n THEN s ELSE SubSeq(s, Len(s) - n + 1, Len(s))

\* int(digits)
RECURSIVE int_of(_)
int_of(d) == IF d = <<>> THEN 0
             ELSE 10 * int_of(SubSeq(d, 1, Len(d) - 1))
                  + ((CHOOSE i \in 1..10 : Digits[i] = d[Len(d)]) - 1)

\* str(n) for n >= 0
RECURSIVE str_of(_)
str_of(n) == IF n < 10 THEN <<Digits[n + 1]>>
             ELSE str_of(n \div 10) \o <<Digits[(n % 10) + 1]>>

\* the run of characters of class C that starts at position i: its length
RECURSIVE run_len(_, _, _)
run_len(s, i, C) == IF i > Len(s) \/ s[i] \notin C THEN 0 ELSE 1 + run_len(s, i + 1, C)

(* ------------------------- QueryExecutor ------------------------------ *)

\* executor.py:254-255: the audit history keeps the last 100 records
HistoryCap == 100

\* executor.py:243: a record stores the first 200 characters of the query
QueryPrefixLen == 200

\* executor.py:248: a record stores the first 100 characters of the error
ErrorPrefixLen == 100

allowed_starts == << <<"S","E","L","E","C","T">>, <<"W","I","T","H">>, <<"E","X","P","L","A","I","N">>, <<"A","N","A","L","Y","Z","E">>, <<"S","H","O","W">>, <<"D","E","S","C","R","I","B","E">>, <<"D","E","S","C">> >>

dangerous_keywords == << <<"D","R","O","P">>, <<"D","E","L","E","T","E">>, <<"I","N","S","E","R","T">>, <<"U","P","D","A","T","E">>, <<"A","L","T","E","R">>, <<"C","R","E","A","T","E">>, <<"T","R","U","N","C","A","T","E">>, <<"G","R","A","N","T">>, <<"R","E","V","O","K","E">>, <<"V","A","C","U","U","M">> >>

\* the ValueError texts of _validate_query; DangerousMessage[k] names dangerous_keywords[k]
ReadOnlyMessage == "Only read-only queries are allowed (SELECT, WITH, EXPLAIN, ANALYZE, SHOW, DESCRIBE). INSERT, UPDATE, DELETE, DROP are not permitted."

DangerousMessage == <<
    "Query contains dangerous keyword 'DROP'. Only read-only queries are allowed.",
    "Query contains dangerous keyword 'DELETE'. Only read-only queries are allowed.",
    "Query contains dangerous keyword 'INSERT'. Only read-only queries are allowed.",
    "Query contains dangerous keyword 'UPDATE'. Only read-only queries are allowed.",
    "Query contains dangerous keyword 'ALTER'. Only read-only queries are allowed.",
    "Query contains dangerous keyword 'CREATE'. Only read-only queries are allowed.",
    "Query contains dangerous keyword 'TRUNCATE'. Only read-only queries are allowed.",
    "Query contains dangerous keyword 'GRANT'. Only read-only queries are allowed.",
    "Query contains dangerous keyword 'REVOKE'. Only read-only queries are allowed.",
    "Query contains dangerous keyword 'VACUUM'. Only read-only queries are allowed." >>

EmptyMessage == "Query cannot be empty"

\* the texts of the model that are longer than ErrorPrefixLen, with their first 100 characters
LongMessages == (ReadOnlyMessage :> "Only read-only queries are allowed (SELECT, WITH, EXPLAIN, ANALYZE, SHOW, DESCRIBE). INSERT, UPDATE,")
    @@ ("canceling statement due to statement timeout after 30000 ms while scanning relation users with a sequential scan" :> "canceling statement due to statement timeout after 30000 ms while scanning relation users with a seq")

\* error_message[:100]
error_prefix(msg) == IF msg \in DOMAIN LongMessages THEN LongMessages[msg] ELSE msg

\* QueryExecutor._validate_query: the text of the ValueError it raises, None when it returns
_validate_query_case_sensitive(query, enable_select_only) ==
    LET query_upper == upper(strip(query))
        hits == {k \in 1..Len(dangerous_keywords) : contains(strip(query), dangerous_keywords[k])}
    IN  IF enable_select_only
           /\ ~ \E k \in 1..Len(allowed_starts) : startswith(query_upper, allowed_starts[k])
        THEN ReadOnlyMessage
        ELSE IF hits # {} THEN DangerousMessage[MinOf(hits)]
        ELSE IF query_upper = <<>> THEN EmptyMessage
        ELSE None

_validate_query(query, enable_select_only) ==
    LET query_upper == upper(strip(query))
        hits == {k \in 1..Len(dangerous_keywords) : contains(query_upper, dangerous_keywords[k])}
    IN  IF enable_select_only
           /\ ~ \E k \in 1..Len(allowed_starts) : startswith(query_upper, allowed_starts[k])
        THEN ReadOnlyMessage
        ELSE IF hits # {} THEN DangerousMessage[MinOf(hits)]
        ELSE IF query_upper = <<>> THEN EmptyMessage
        ELSE None

\* length of the match of LIMIT\s+\d+ that starts at position i of the upper-cased text u, 0 if none
limit_match_len(u, i) ==
    IF ~ matches_at(u, <<"L","I","M","I","T">>, i) THEN 0
    ELSE LET ws == run_len(u, i + 5, Whitespace)
             ds == run_len(u, i + 5 + ws, DigitChars)
         IN  IF ws >= 1 /\ ds >= 1 THEN 5 + ws + ds ELSE 0

\* re.sub(r'LIMIT\s+\d+', repl, query, flags=re.IGNORECASE), scanning from position i;
\* u is the upper-cased query
RECURSIVE sub_limit(_, _, _, _)
sub_limit(query, u, i, repl) ==
    IF i > Len(query) THEN <<>>
    ELSE LET n == limit_match_len(u, i)
         IN  IF n > 0 THEN repl \o sub_limit(query, u, i + n, repl)
             ELSE <<query[i]>> \o sub_limit(query, u, i + 1, repl)

\* QueryExecutor._add_result_limit
_add_result_limit(query, max_rows) ==
    LET query_upper == upper(strip(query))
        starts == {i \in 1..Len(query_upper) : limit_match_len(query_upper, i) > 0}
        limit_text == <<"L","I","M","I","T"," ">> \o str_of(max_rows)
    IN  IF contains(query_upper, <<"L","I","M","I","T">>)
        THEN IF starts # {}
             THEN LET i == MinOf(starts)
                      ws == run_len(query_upper, i + 5, Whitespace)
                      ds == run_len(query_upper, i + 5 + ws, DigitChars)
                      existing_limit == int_of(SubSeq(query_upper, i + 5 + ws, i + 4 + ws + ds))
                  IN  IF existing_limit > max_rows
                      THEN sub_limit(query, upper(query), 1, limit_text)
                      ELSE query
             ELSE query
        ELSE LET q1 == IF endswith(rstrip(query), <<";">>)
                       THEN SubSeq(rstrip(query), 1, Len(rstrip(query)) - 1)
                       ELSE query
             IN  strip(q1) \o <<" ">> \o limit_text

\* the record _track_execution builds (executor.py:242-249); ts is time.time()
ExecutionRecord(query, result, ts) ==
    [ query |-> Take(query, QueryPrefixLen),
      status |-> result.status,
      row_count |-> result.row_count,
      timestamp |-> ts,
      error |-> IF result.error_message # None THEN error_prefix(result.error_message) ELSE None ]

\* QueryExecutor._track_execution: the new value of _execution_history
_track_execution(history, query, result, ts) ==
    LET appended == Append(history, ExecutionRecord(query, result, ts))
    IN  IF Len(appended) > HistoryCap THEN LastN(appended, HistoryCap) ELSE appended

\* QueryExecutor.get_execution_history(limit): self._execution_history[-limit:]
get_execution_history(history, limit) ==
    IF limit = 0 THEN history ELSE LastN(history, limit)

\* what connector.execute_query does for one call: it returns a status-tagged
\* record (connector.py:183-228) or, for a connector that breaks its contract, raises
ConnectorOutcomes ==
    { [raises |-> FALSE, status |-> "success", row_count |-> 2, error_message |-> None],
      [raises |-> FALSE, status |-> "error", row_count |-> 0, error_message |-> "relation does not exist"],
      [raises |-> FALSE, status |-> "error", row_count |-> 0,
       error_message |-> "canceling statement due to statement timeout after 30000 ms while scanning relation users with a sequential scan"],
      [raises |-> TRUE, status |-> "error", row_count |-> 0, error_message |-> "connection already closed"] }

\* execute without its handler for unexpected exceptions: the exception of the
\* connector leaves execute, and no SQLResult is returned
execute_lets_exceptions_escape(history, sql_query, conn, max_rows, enable_select_only, ts) ==
    LET err == _validate_query(sql_query, enable_select_only)
    IN  IF err # None
        THEN LET r == [query |-> sql_query, row_count |-> 0, status |-> "error", error_message |-> err]
             IN  [result |-> r, history |-> _track_execution(history, sql_query, r, ts), sent |-> <<>>]
        ELSE LET query == _add_result_limit(sql_query, max_rows)
             IN  IF conn.raises
                 THEN [result |-> [query |-> sql_query, row_count |-> 0, status |-> "raised",
                                   error_message |-> None],
                       history |-> history,
                       sent |-> <<query>>]
                 ELSE LET r == [query |-> sql_query, row_count |-> conn.row_count,
                                status |-> conn.status, error_message |-> conn.error_message]
                      IN  [result |-> r,
                           history |-> _track_execution(history, sql_query, r, ts),
                           sent |-> <<query>>]

\* QueryExecutor.execute: the SQLResult returned, the new audit history and the
\* texts handed to connector.execute_query
execute(history, sql_query, conn, max_rows, enable_select_only, ts) ==
    LET err == _validate_query(sql_query, enable_select_only)
    IN  IF err # None
        THEN LET r == [query |-> sql_query, row_count |-> 0, status |-> "error", error_message |-> err]
             IN  [result |-> r, history |-> _track_execution(history, sql_query, r, ts), sent |-> <<>>]
        ELSE LET query == _add_result_limit(sql_query, max_rows)
             IN  IF conn.raises
                 THEN [result |-> [query |-> sql_query, row_count |-> 0, status |-> "error",
                                   error_message |-> "Unexpected error: " \o conn.error_message],
                       history |-> history,
                       sent |-> <<query>>]
                 ELSE LET r == [query |-> sql_query, row_count |-> conn.row_count,
                                status |-> conn.status, error_message |-> conn.error_message]
                      IN  [result |-> r,
                           history |-> _track_execution(history, sql_query, r, ts),
                           sent |-> <<query>>]

(* ------------------------- QueryValidator ------------------------------ *)

\* validator.py:168: queries longer than 10000 characters are rejected
MaxQueryLength == 10000

WordChars == LowerLetters \cup UpperLetters \cup DigitChars \cup {"_"}

\* validator.py:147
validator_dangerous_keywords == << <<"D","R","O","P">>, <<"D","E","L","E","T","E">>, <<"I","N","S","E","R","T">>, <<"U","P","D","A","T","E">>, <<"A","L","T","E","R">>, <<"C","R","E","A","T","E">> >>

\* QueryValidator._validate_syntax
_validate_syntax(query) ==
    LET query_upper == upper(strip(query))
        backslash_quotes == Cardinality({i \in 1..(Len(query) - 1) : query[i] = "\\" /\ query[i + 1] = "'"})
        single_quotes == count_char(query, "'") - backslash_quotes
    IN  IF strip(query) = <<>>
        THEN << [msg |-> "Query cannot be empty", arg |-> <<>>] >>
        ELSE (IF startswith(query_upper, <<"S","E","L","E","C","T">>) \/ startswith(query_upper, <<"W","I","T","H">>)
              THEN <<>>
              ELSE << [msg |-> "Query must start with SELECT or WITH, got", arg |-> Take(query, 20)] >>)
          \o (IF count_char(query, "(") # count_char(query, ")")
              THEN << [msg |-> "Unbalanced parentheses", arg |-> <<>>] >> ELSE <<>>)
          \o (IF single_quotes % 2 # 0
              THEN << [msg |-> "Unmatched single quotes", arg |-> <<>>] >> ELSE <<>>)
          \o (IF count_char(query, ";") > 1
              THEN << [msg |-> "Multiple SQL statements not allowed", arg |-> <<>>] >> ELSE <<>>)

\* re.findall(word + r'\s+(\w+)', query, re.IGNORECASE), scanning from position i;
\* u is the upper-cased query
RECURSIVE findall_after(_, _, _, _)
findall_after(query, u, word, i) ==
    IF i > Len(query) THEN <<>>
    ELSE IF ~ matches_at(u, word, i) THEN findall_after(query, u, word, i + 1)
    ELSE LET ws == run_len(query, i + Len(word), Whitespace)
             wd == run_len(query, i + Len(word) + ws, WordChars)
         IN  IF ws >= 1 /\ wd >= 1
             THEN << SubSeq(query, i + Len(word) + ws, i + Len(word) + ws + wd - 1) >>
                  \o findall_after(query, u, word, i + Len(word) + ws + wd)
             ELSE findall_after(query, u, word, i + 1)

\* QueryValidator._extract_tables
_extract_tables(query) ==
    findall_after(query, upper(query), <<"F","R","O","M">>, 1) \o findall_after(query, upper(query), <<"J","O","I","N">>, 1)

\* _validate_schema_compatibility looking the extracted name up as it is spelled
_validate_schema_compatibility_case_sensitive(query, tables) ==
    LET from_tables == _extract_tables(query)
        available_tables == {lower(tables[t].table_name) : t \in 1..Len(tables)}
        missing == SelectSeq(from_tables, LAMBDA table_name : table_name \notin available_tables)
    IN  [n \in 1..Len(missing) |-> [msg |-> "Table not found in schema", arg |-> missing[n]]]

\* QueryValidator._validate_schema_compatibility, on the tables of schema_manager.get_schema()
_validate_schema_compatibility(query, tables) ==
    LET from_tables == _extract_tables(query)
        available_tables == {lower(tables[t].table_name) : t \in 1..Len(tables)}
        missing == SelectSeq(from_tables, LAMBDA table_name : lower(table_name) \notin available_tables)
    IN  [n \in 1..Len(missing) |-> [msg |-> "Table not found in schema", arg |-> missing[n]]]

\* re.search(r"'?\s*;\s*" + marker, query_upper) for the two-character marker
semicolon_then(u, marker) ==
    \E i \in 1..Len(u) :
        /\ u[i] = ";"
        /\ matches_at(u, marker, i + 1 + run_len(u, i + 1, Whitespace))

\* re.search(r"OR\s+'?1'?\s*=\s*'?1'?", query_upper)
always_true_condition(u) ==
    \E i \in 1..Len(u) :
        /\ matches_at(u, <<"O","R">>, i)
        /\ LET ws1 == run_len(u, i + 2, Whitespace)
               a == i + 2 + ws1
               q1 == IF matches_at(u, <<"'">>, a) THEN 1 ELSE 0
               b == a + q1
               q2 == IF matches_at(u, <<"'">>, b + 1) THEN 1 ELSE 0
               opt(p, n) == {p + k : k \in 0..n}
           IN  /\ ws1 >= 1
               /\ matches_at(u, <<"1">>, b)
               /\ \E c \in opt(b + 1, q2) :
                      LET e == c + run_len(u, c, Whitespace)
                      IN  /\ matches_at(u, <<"=">>, e)
                          /\ LET f == e + 1 + run_len(u, e + 1, Whitespace)
                             IN  matches_at(u, <<"1">>, f) \/ matches_at(u, <<"'","1">>, f)

\* _validate_safety appending an error for the UNION SELECT pattern as well
_validate_safety_rejects_union(query) ==
    LET query_upper == upper(query)
        hits == SelectSeq(validator_dangerous_keywords, LAMBDA keyword : contains(query_upper, keyword))
    IN  [n \in 1..Len(hits) |-> [msg |-> "Dangerous keyword not allowed", arg |-> hits[n]]]
        \o (IF semicolon_then(query_upper, <<"-","-">>)
            THEN << [msg |-> "Potential security issue: Comment-based injection attempt", arg |-> <<>>] >>
            ELSE <<>>)
        \o (IF semicolon_then(query_upper, <<"/","*">>)
            THEN << [msg |-> "Potential security issue: Block comment injection attempt", arg |-> <<>>] >>
            ELSE <<>>)
        \o (IF always_true_condition(query_upper)
            THEN << [msg |-> "Potential security issue: Always-true condition", arg |-> <<>>] >>
            ELSE <<>>)
        \o (IF \E i \in 1..Len(query_upper) :
                   /\ matches_at(query_upper, <<"U","N","I","O","N">>, i)
                   /\ run_len(query_upper, i + 5, Whitespace) >= 1
                   /\ matches_at(query_upper, <<"S","E","L","E","C","T">>, i + 5 + run_len(query_upper, i + 5, Whitespace))
            THEN << [msg |-> "Potential security issue: UNION injection attempt (use with caution)", arg |-> <<>>] >>
            ELSE <<>>)
        \o (IF Len(query) > MaxQueryLength
            THEN << [msg |-> "Query too long (max 10000 characters)", arg |-> <<>>] >>
            ELSE <<>>)

\* QueryValidator._validate_safety
_validate_safety(query) ==
    LET query_upper == upper(query)
        hits == SelectSeq(validator_dangerous_keywords, LAMBDA keyword : contains(query_upper, keyword))
    IN  [n \in 1..Len(hits) |-> [msg |-> "Dangerous keyword not allowed", arg |-> hits[n]]]
        \o (IF semicolon_then(query_upper, <<"-","-">>)
            THEN << [msg |-> "Potential security issue: Comment-based injection attempt", arg |-> <<>>] >>
            ELSE <<>>)
        \o (IF semicolon_then(query_upper, <<"/","*">>)
            THEN << [msg |-> "Potential security issue: Block comment injection attempt", arg |-> <<>>] >>
            ELSE <<>>)
        \o (IF always_true_condition(query_upper)
            THEN << [msg |-> "Potential security issue: Always-true condition", arg |-> <<>>] >>
            ELSE <<>>)
        \o (IF Len(query) > MaxQueryLength
            THEN << [msg |-> "Query too long (max 10000 characters)", arg |-> <<>>] >>
            ELSE <<>>)

\* QueryValidator.validate
validate(query, tables) ==
    LET errors == _validate_syntax(query)
                  \o _validate_schema_compatibility(query, tables)
                  \o _validate_safety(query)
    IN  [is_valid |-> Len(errors) = 0, errors |-> errors]

(* ------------------ SchemaRetriever and QueryGenerator ----------------- *)

\* the run of characters outside class C that starts at position i: its length
RECURSIVE run_len_not(_, _, _)
run_len_not(s, i, C) == IF i > Len(s) \/ s[i] \in C THEN 0 ELSE 1 + run_len_not(s, i + 1, C)

\* query.split(): the set of the maximal runs of non-whitespace characters
split_words(s) ==
    { SubSeq(s, i, i + run_len_not(s, i, Whitespace) - 1) :
        i \in {k \in 1..Len(s) : s[k] \notin Whitespace /\ (k = 1 \/ s[k - 1] \in Whitespace)} }

\* the numerator of total_score (schema_retriever.py:80-92); the denominator is len(query_keywords) + 1
table_score(table, query_keywords) ==
    LET table_name_match == Cardinality({kw \in query_keywords : contains(lower(table.table_name), kw)})
        column_matches == Cardinality({<<c, kw>> \in (1..Len(table.columns)) \X query_keywords :
                                          contains(lower(table.columns[c]), kw)})
    IN  table_name_match * 2 + column_matches

\* SchemaRetriever.find_relevant_tables(query, threshold = threshold_num / threshold_den, max_tables):
\* the tables at or above the threshold, by descending score, ties in schema order
find_relevant_tables(tables, query, threshold_num, threshold_den, max_tables) ==
    LET query_keywords == split_words(lower(query))
        score(t) == table_score(tables[t], query_keywords)
        kept == {t \in 1..Len(tables) :
                    score(t) * threshold_den >= threshold_num * (Cardinality(query_keywords) + 1)}
        rank(t) == 1 + Cardinality({u \in kept : score(u) > score(t) \/ (score(u) = score(t) /\ u < t)})
        sorted == [r \in 1..Cardinality(kept) |-> tables[CHOOSE t \in kept : rank(t) = r]]
    IN  Take(sorted, max_tables)

\* QueryGenerator._parse_response
_parse_response_keeps_fence(response) ==
    LET r3 == strip(response)
        r4 == IF endswith(r3, <<";">>) THEN SubSeq(r3, 1, Len(r3) - 1) ELSE r3
    IN  strip(r4)

_parse_response(response) ==
    LET r0 == strip(response)
        r1 == IF startswith(r0, <<GraveAccent,GraveAccent,GraveAccent,"s","q","l">>) THEN Drop(r0, 6)
              ELSE IF startswith(r0, <<GraveAccent,GraveAccent,GraveAccent>>) THEN Drop(r0, 3)
              ELSE r0
        r2 == IF endswith(r1, <<GraveAccent,GraveAccent,GraveAccent>>) THEN SubSeq(r1, 1, Len(r1) - 3) ELSE r1
        r3 == strip(r2)
        r4 == IF endswith(r3, <<";">>) THEN SubSeq(r3, 1, Len(r3) - 1) ELSE r3
    IN  strip(r4)

\* confidence is counted in thousandths: 0.5 is 500
ConfidenceUnit == 1000

\* _estimate_confidence giving the whole table bonus as soon as one table is used
_estimate_confidence_any_table(sql, relevant_tables) ==
    LET sql_upper == upper(sql)
        table_count == Cardinality({t \in 1..Len(relevant_tables) : contains(sql_upper, upper(relevant_tables[t]))})
        c0 == 500
        c1 == IF startswith(sql_upper, <<"S","E","L","E","C","T">>) THEN c0 + 200 ELSE c0
        c2 == IF table_count > 0 THEN c1 + 150 ELSE c1
        c3 == IF contains(sql_upper, <<"F","R","O","M">>) THEN c2 + 100 ELSE c2
        c4 == IF contains(sql, <<"-","-">>) \/ contains(sql, <<"/","*">>) THEN c3 - 100 ELSE c3
    IN  IF c4 < 0 THEN 0 ELSE IF c4 > ConfidenceUnit THEN ConfidenceUnit ELSE c4

\* QueryGenerator._estimate_confidence
_estimate_confidence(sql, relevant_tables) ==
    LET sql_upper == upper(sql)
        table_count == Cardinality({t \in 1..Len(relevant_tables) : contains(sql_upper, upper(relevant_tables[t]))})
        c0 == 500
        c1 == IF startswith(sql_upper, <<"S","E","L","E","C","T">>) THEN c0 + 200 ELSE c0
        c2 == IF table_count > 0 THEN c1 + (150 * table_count) \div Len(relevant_tables) ELSE c1
        c3 == IF contains(sql_upper, <<"F","R","O","M">>) THEN c2 + 100 ELSE c2
        c4 == IF contains(sql, <<"-","-">>) \/ contains(sql, <<"/","*">>) THEN c3 - 100 ELSE c3
    IN  IF c4 < 0 THEN 0 ELSE IF c4 > ConfidenceUnit THEN ConfidenceUnit ELSE c4

(* ----------------------------- SQLRAGChain ----------------------------- *)

\* the SQLQuery, explanation and confidence QueryGenerator.generate returns, or the
\* exception it raises; llm tells what the two llm_client.generate calls do, and
\* schema_fault is the exception schema_manager.get_schema raises (<<>> if none)
generate(request, tables, llm, schema_fault) ==
    LET relevant_tables == find_relevant_tables(tables, request, 3, 10, 5)
        relevant_table_names == [t \in 1..Len(relevant_tables) |-> relevant_tables[t].table_name]
        parsed_sql == _parse_response(llm.sql_reply)
        raise(e) == [raises |-> TRUE, exception |-> e, query |-> <<>>, explanation |-> <<>>, confidence |-> 0]
    IN  IF schema_fault # <<>> THEN raise(schema_fault[1])
        ELSE IF llm.sql_raises THEN raise([type |-> "RuntimeError", text |-> "LLM generation failed"])
        ELSE IF llm.explanation_raises THEN raise([type |-> "RuntimeError", text |-> "LLM generation failed"])
        ELSE IF parsed_sql = <<>>
             THEN raise([type |-> "ValidationError", text |-> "query_string: String should have at least 1 character"])
        ELSE [raises |-> FALSE,
              exception |-> [type |-> "", text |-> ""],
              query |-> parsed_sql,
              explanation |-> strip(llm.explanation_reply),
              confidence |-> _estimate_confidence(parsed_sql, relevant_table_names)]

\* range(self.max_retries + 1): the number of attempts of the retry loop
attempts_allowed_one_more(retries) == retries + 2

attempts_allowed(retries) == retries + 1

\* one iteration of the loop of _generate_query_with_retry (sql_rag_chain.py:263-290):
\* how the attempt ends; validator_fault is the exception validate raises (<<>> if none)
attempt_outcome_accepts_invalid(gen, threshold, tables, validator_fault) ==
    IF gen.raises THEN "failed_exception"
    ELSE IF gen.confidence >= threshold THEN "accepted_confidence"
    ELSE IF validator_fault # <<>> THEN "failed_exception"
    ELSE "accepted_valid"

attempt_outcome(gen, threshold, tables, validator_fault) ==
    IF gen.raises THEN "failed_exception"
    ELSE IF gen.confidence >= threshold THEN "accepted_confidence"
    ELSE IF validator_fault # <<>> THEN "failed_exception"
    ELSE IF validate(gen.query, tables).is_valid THEN "accepted_valid"
    ELSE "failed_invalid"

\* sql_rag_chain.py:197-210: where process goes once the full validation has returned
after_validation_ignores_verdict(is_valid) == "execute"

after_validation(is_valid) == IF is_valid THEN "execute" ELSE "done"

\* SQLResult(query=..., status=...) with the defaults of the other fields
SQLResult(query, status, error_message) ==
    [query |-> query, row_count |-> 0, status |-> status, error_message |-> error_message]

\* sql_rag_chain.py:181-188
generation_failed_response_keeps_confidence(request) ==
    [ original_query |-> request,
      generated_sql |-> <<>>,
      sql_explanation |-> [by |-> "chain", text |-> "Could not generate valid SQL query after retries"],
      query_result |-> SQLResult(<<>>, "failed", None),
      interpretation |-> "Query generation failed",
      confidence |-> 500 ]

generation_failed_response(request) ==
    [ original_query |-> request,
      generated_sql |-> <<>>,
      sql_explanation |-> [by |-> "chain", text |-> "Could not generate valid SQL query after retries"],
      query_result |-> SQLResult(<<>>, "failed", None),
      interpretation |-> "Query generation failed",
      confidence |-> 0 ]

\* sql_rag_chain.py:198-205
validation_failed_response(request, g) ==
    [ original_query |-> request,
      generated_sql |-> g.query,
      sql_explanation |-> [by |-> "llm", text |-> g.explanation],
      query_result |-> SQLResult(g.query, "validation_failed", None),
      interpretation |-> "Query validation failed",
      confidence |-> g.confidence ]

\* ResultParser.format_for_llm (result_parser.py:251-270)
format_for_llm(result) ==
    IF result.status = "error" THEN "Error: " \o result.error_message ELSE "Query results"

\* sql_rag_chain.py:221-229
executed_response(request, g, result) ==
    [ original_query |-> request,
      generated_sql |-> g.query,
      sql_explanation |-> [by |-> "llm", text |-> g.explanation],
      query_result |-> result,
      interpretation |-> format_for_llm(result),
      confidence |-> g.confidence ]

\* sql_rag_chain.py:231-241: the except clause of process; it catches every Exception
process_except_value_errors_only(request, e) ==
    [ caught |-> e.type = "ValueError",
      response |-> [ original_query |-> request,
                     generated_sql |-> <<>>,
                     sql_explanation |-> [by |-> "chain", text |-> e.text],
                     query_result |-> SQLResult(<<>>, "error", e.text),
                     interpretation |-> "Error: " \o e.text,
                     confidence |-> 0 ] ]

process_except(request, e) ==
    [ caught |-> TRUE,
      response |-> [ original_query |-> request,
                     generated_sql |-> <<>>,
                     sql_explanation |-> [by |-> "chain", text |-> e.text],
                     query_result |-> SQLResult(<<>>, "error", e.text),
                     interpretation |-> "Error: " \o e.text,
                     confidence |-> 0 ] ]

(* ------------------------------ state --------------------------------- *)

VARIABLES
    _execution_history,   \* QueryExecutor._execution_history
    max_rows,             \* QueryExecutor.max_rows
    enable_select_only,   \* QueryExecutor.enable_select_only
    now,                  \* time.time(), in ticks
    exec_out,             \* <<>> or the last execute call: its query, what the connector did,
                          \* the SQLResult returned and the texts handed to connector.execute_query
    pc,                   \* where SQLRAGChain.process stands
    max_retries,          \* SQLRAGChain.max_retries
    confidence_threshold, \* SQLRAGChain.confidence_threshold, in thousandths
    schema_tables,        \* the tables of the snapshot schema_manager.get_schema() returns
    request,              \* request.query of the process call
    attempts,             \* the iterations of the retry loop made so far: how each ended and,
                          \* unless it raised, the reply of the LLM
    generated,            \* what _generate_query_with_retry returned: <<>> for (None, "", 0.0)
    validated,            \* the calls of validator.validate made by process: the query and the verdict
    exec_calls,           \* the queries process handed to executor.execute
    faults,               \* the stages of process in which a collaborator raised
    response,             \* <<>> or the SQLRagResponse process returned
    unrecorded,           \* the ticks of the execute calls that left no audit record
    threads,              \* per calling thread: where it stands in the operation it runs, and its locals
    _schema_cache,        \* SchemaManager._schema_cache: <<>> for None, or <<the DatabaseSchema>>
    _cache_time,          \* SchemaManager._cache_time
    _cache_valid,         \* SchemaManager._cache_valid
    _schema_versions,     \* SchemaManager._schema_versions
    _current_version,     \* SchemaManager._current_version
    cache_ttl,            \* SchemaManager.cache_ttl, in ticks
    enable_versioning,    \* SchemaManager.enable_versioning
    _tables_loaded,       \* SchemaManager._tables_loaded: table name -> the table object cached for it
    fetches,              \* the calls of connector.get_schema made so far, and how many of them
                          \* returned a catalog
    last_fetch,           \* the last fetch that returned a catalog: its number, its time, and whether
                          \* invalidate_cache was called since
    schema_out,           \* <<>> or the last SchemaManager call: what it found, fetched and returned
    pool,                 \* the connection pool: for each connection, 0 or the caller it is checked out to
    checked               \* <<>> or the last call of the function under study: its inputs and its result

execVars == <<_execution_history, max_rows, enable_select_only, now, exec_out>>

chainVars == <<pc, max_retries, confidence_threshold, schema_tables, request, attempts,
               generated, validated, exec_calls, faults, response>>

callerVars == <<unrecorded, threads>>

managerVars == <<_schema_cache, _cache_time, _cache_valid, _schema_versions, _current_version,
                 cache_ttl, enable_versioning, _tables_loaded>>

managerLog == <<fetches, last_fetch, schema_out>>

restVars == <<managerVars, managerLog, pool, checked>>

vars == <<_execution_history, max_rows, enable_select_only, now, exec_out,
          pc, max_retries, confidence_threshold, schema_tables, request, attempts,
          generated, validated, exec_calls, faults, response, unrecorded, threads,
          _schema_cache, _cache_time, _cache_valid, _schema_versions, _current_version,
          cache_ttl, enable_versioning, _tables_loaded, fetches, last_fetch, schema_out, pool, checked>>

\* the chain before any process call
ChainIdle ==
    /\ pc = "idle"
    /\ request = <<>>
    /\ attempts = <<>>
    /\ generated = <<>>
    /\ validated = <<>>
    /\ exec_calls = <<>>
    /\ faults = <<>>
    /\ response = <<>>

\* SchemaManager.__init__ with its defaults, before any call
ManagerIdle ==
    /\ _schema_cache = <<>>
    /\ _cache_time = 0
    /\ _cache_valid = FALSE
    /\ _schema_versions = <<>>
    /\ _current_version = 0
    /\ _tables_loaded = <<>>
    /\ fetches = [calls |-> 0, returned |-> 0]
    /\ last_fetch = <<>>
    /\ schema_out = <<>>

\* nothing but the component under study is in use
RestIdle ==
    /\ ManagerIdle
    /\ cache_ttl = 3600
    /\ enable_versioning = TRUE
    /\ pool = <<>>
    /\ checked = <<>>

\* the threads that share one executor
NumThreads == 2

Threads == 1..NumThreads

\* no thread is inside execute
NoCallers ==
    /\ unrecorded = {}
    /\ threads = [t \in Threads |-> [pc |-> "idle", calls |-> 0, trimmed |-> <<>>]]

\* the schema of the test fixture (tests/test_sql_rag_pipeline.py:32-49)
TestSchema ==
    << [table_name |-> <<"u","s","e","r","s">>, columns |-> << <<"i","d">>, <<"n","a","m","e">>, <<"e","m","a","i","l">> >>],
       [table_name |-> <<"o","r","d","e","r","s">>, columns |-> << <<"i","d">>, <<"u","s","e","r","_","i","d">>, <<"a","m","o","u","n","t">> >>] >>

\* the snapshot built from the empty catalog {"tables": {}} (connector.py:263-265)
EmptySchema == <<>>

(* ----------------------- inputs of the executor ------------------------ *)

\* the pieces the submitted query strings are built from
Fragments ==
    { <<"S","E","L","E","C","T"," ","*"," ","F","R","O","M"," ","u","s","e","r","s">>, <<"s","e","l","e","c","t"," ","n","a","m","e"," ","f","r","o","m"," ","u","s","e","r","s"," ">>, <<" "," ">>,
      <<"D","R","O","P"," ","T","A","B","L","E"," ","u","s","e","r","s">>, <<" ","d","e","l","e","t","e"," ","f","r","o","m"," ","u","s","e","r","s">>, <<"I","n","S","e","R","t">>,
      <<" ","W","H","E","R","E"," ","u","p","d","a","t","e","d","_","a","t"," ",">"," ","1">>, <<" ","a","L","t","E","r"," ">>, <<"c","r","e","a","t","e">>, <<"T","R","U","N","C","A","T","E">>,
      <<"G","r","a","n","t">>, <<"R","E","V","O","K","E">>, <<"v","a","c","u","u","m">>, <<" ","L","I","M","I","T"," ","5","0","0","0",";">> }

\* a query string is the concatenation of at most MaxFragments pieces
MaxFragments == 2

RECURSIVE QueriesOfLen(_)
QueriesOfLen(n) == IF n = 0 THEN {<<>>}
                   ELSE {f \o q : f \in Fragments, q \in QueriesOfLen(n - 1)}

Queries == UNION {QueriesOfLen(n) : n \in 1..MaxFragments}

\* QueryExecutor.__init__: max_rows (default 1000) and enable_select_only (default True)
MaxRowsChoices == {5, 1000}

(* ------------------- the executor on submitted queries ----------------- *)

ExecInit ==
    /\ _execution_history = <<>>
    /\ max_rows \in MaxRowsChoices
    /\ enable_select_only \in BOOLEAN
    /\ now = 0
    /\ exec_out = <<>>
    /\ max_retries = 2
    /\ confidence_threshold = 500
    /\ schema_tables = TestSchema
    /\ ChainIdle
    /\ NoCallers
    /\ RestIdle

\* QueryExecutor.execute(SQLQuery(query_string=q)), called once the caller is
\* done with the previous result
Execute ==
    \E q \in Queries, conn \in ConnectorOutcomes :
        /\ exec_out = <<>>
        /\ LET out == execute(_execution_history, q, conn, max_rows, enable_select_only, now)
           IN  /\ _execution_history' = out.history
               /\ exec_out' = << [query |-> q, conn |-> conn, result |-> out.result, sent |-> out.sent] >>
        /\ UNCHANGED <<max_rows, enable_select_only, now>>
        /\ UNCHANGED chainVars
        /\ UNCHANGED restVars
        /\ UNCHANGED callerVars

\* QueryExecutor.clear_execution_history, called by the caller when it drops the result
ClearHistory ==
    /\ exec_out # <<>>
    /\ _execution_history' = <<>>
    /\ exec_out' = <<>>
    /\ UNCHANGED <<max_rows, enable_select_only, now>>
    /\ UNCHANGED chainVars
    /\ UNCHANGED restVars
    /\ UNCHANGED callerVars

ExecNext == Execute \/ ClearHistory

ExecSpec == ExecInit /\ [][ExecNext]_vars

(* ---------------------- SQLRAGChain.process, by stage ------------------ *)

\* request.query
NLQueries == { <<"s","h","o","w"," ","m","e"," ","a","l","l"," ","u","s","e","r","s">>, <<"l","i","s","t"," ","t","h","e"," ","o","r","d","e","r","s"," ","b","y"," ","a","m","o","u","n","t">>, <<"h","e","l","l","o">> }

\* the texts the generation capability answers with
FencedSelectUsers == <<GraveAccent,GraveAccent,GraveAccent,"s","q","l","\n","S","E","L","E","C","T"," ","*"," ","F","R","O","M"," ","u","s","e","r","s","\n",GraveAccent,GraveAccent,GraveAccent>>

DropTableUsers == <<"D","R","O","P"," ","T","A","B","L","E"," ","u","s","e","r","s">>

LLMReplies ==
    { FencedSelectUsers, DropTableUsers, <<"S","E","L","E","C","T"," ","*"," ","F","R","O","M"," ","m","i","s","s","i","n","g",";">>, <<"-","-"," ","c","a","n","n","o","t"," ","a","n","s","w","e","r">>, <<GraveAccent,GraveAccent,GraveAccent>> }

\* what the two llm_client.generate calls of one generate do: a capability that
\* answers every prompt with the same text, or one that raises at the first or the second call
LLMBehaviours ==
    { [sql_raises |-> FALSE, sql_reply |-> r, explanation_raises |-> FALSE, explanation_reply |-> r] :
        r \in LLMReplies }
    \cup { [sql_raises |-> TRUE, sql_reply |-> <<>>, explanation_raises |-> FALSE, explanation_reply |-> <<>>],
           [sql_raises |-> FALSE, sql_reply |-> <<"S","E","L","E","C","T"," ","*"," ","F","R","O","M"," ","u","s","e","r","s">>,
            explanation_raises |-> TRUE, explanation_reply |-> <<>>] }

\* the exception of a failing schema_manager.get_schema, of a failing
\* result_parser.format_for_llm
SchemaError == [type |-> "KeyError", text |-> "'name'"]

FormatError == [type |-> "TypeError", text |-> "Object is not JSON serializable"]

SchemaFaults == { <<>>, <<SchemaError>> }

\* SQLRAGChain.__init__: max_retries (default 2), confidence_threshold (default 0.5)
MaxRetriesChoices == {0, 1, 2}

ThresholdChoices == {500, 900}

ChainInit ==
    /\ _execution_history = <<>>
    /\ max_rows \in MaxRowsChoices
    /\ enable_select_only = TRUE
    /\ now = 0
    /\ exec_out = <<>>
    /\ max_retries \in MaxRetriesChoices
    /\ confidence_threshold \in ThresholdChoices
    /\ schema_tables \in {TestSchema, EmptySchema}
    /\ ChainIdle
    /\ NoCallers
    /\ RestIdle

\* the except clause of process takes over
Handle(stage, e) ==
    LET h == process_except(request, e)
    IN  /\ faults' = Append(faults, stage)
        /\ IF h.caught
           THEN pc' = "done" /\ response' = << h.response >>
           ELSE pc' = "raised" /\ response' = <<>>

\* process is called (sql_rag_chain.py:158-161)
BeginProcess ==
    \E q \in NLQueries :
        /\ pc = "idle"
        /\ pc' = "retrieve"
        /\ request' = q
        /\ UNCHANGED execVars
        /\ UNCHANGED callerVars
        /\ UNCHANGED restVars
        /\ UNCHANGED <<max_retries, confidence_threshold, schema_tables, attempts, generated,
                       validated, exec_calls, faults, response>>

\* find_relevant_tables and get_schema_context (sql_rag_chain.py:163-171)
Retrieve ==
    \E fault \in SchemaFaults :
        /\ pc = "retrieve"
        /\ IF fault # <<>>
           THEN Handle("retrieve", fault[1])
           ELSE pc' = "generate" /\ UNCHANGED <<faults, response>>
        /\ UNCHANGED execVars
        /\ UNCHANGED callerVars
        /\ UNCHANGED restVars
        /\ UNCHANGED <<max_retries, confidence_threshold, schema_tables, request, attempts,
                       generated, validated, exec_calls>>

\* one iteration of the loop of _generate_query_with_retry (sql_rag_chain.py:262-290)
GenerateAttempt ==
    \E llm \in LLMBehaviours, schema_fault \in SchemaFaults, validator_fault \in SchemaFaults :
        /\ pc = "generate"
        /\ Len(attempts) < attempts_allowed(max_retries)
        /\ LET gen == generate(request, schema_tables, llm, schema_fault)
               outcome == attempt_outcome(gen, confidence_threshold, schema_tables, validator_fault)
               accepted == outcome \in {"accepted_confidence", "accepted_valid"}
           IN  /\ attempts' = Append(attempts, [reply |-> IF outcome = "failed_exception" THEN <<>> ELSE llm.sql_reply,
                                                outcome |-> outcome])
               /\ generated' = IF accepted
                               THEN << [query |-> gen.query, explanation |-> gen.explanation,
                                        confidence |-> gen.confidence] >>
                               ELSE <<>>
               /\ pc' = IF accepted \/ (outcome = "failed_exception" /\ Len(attempts) = max_retries)
                        THEN "check"
                        ELSE "generate"
        /\ UNCHANGED execVars
        /\ UNCHANGED callerVars
        /\ UNCHANGED restVars
        /\ UNCHANGED <<max_retries, confidence_threshold, schema_tables, request,
                       validated, exec_calls, faults, response>>

\* the loop ran out of attempts (sql_rag_chain.py:292)
GenerateExhausted ==
    /\ pc = "generate"
    /\ Len(attempts) >= attempts_allowed(max_retries)
    /\ generated' = <<>>
    /\ pc' = "check"
    /\ UNCHANGED execVars
    /\ UNCHANGED callerVars
    /\ UNCHANGED restVars
    /\ UNCHANGED <<max_retries, confidence_threshold, schema_tables, request, attempts,
                   validated, exec_calls, faults, response>>

\* if not generated_query (sql_rag_chain.py:180-192)
CheckGenerated ==
    /\ pc = "check"
    /\ IF generated = <<>>
       THEN pc' = "done" /\ response' = << generation_failed_response(request) >>
       ELSE pc' = "validate" /\ UNCHANGED response
    /\ UNCHANGED execVars
    /\ UNCHANGED callerVars
    /\ UNCHANGED restVars
    /\ UNCHANGED <<max_retries, confidence_threshold, schema_tables, request, attempts,
                   generated, validated, exec_calls, faults>>

\* the full validation (sql_rag_chain.py:194-207)
ValidateStep ==
    \E fault \in SchemaFaults :
        /\ pc = "validate"
        /\ IF fault # <<>>
           THEN Handle("validate", fault[1]) /\ UNCHANGED validated
           ELSE LET v == validate(generated[1].query, schema_tables)
                IN  /\ validated' = Append(validated, [query |-> generated[1].query, is_valid |-> v.is_valid])
                    /\ pc' = after_validation(v.is_valid)
                    /\ response' = IF after_validation(v.is_valid) = "done"
                                   THEN << validation_failed_response(request, generated[1]) >>
                                   ELSE response
                    /\ UNCHANGED faults
        /\ UNCHANGED execVars
        /\ UNCHANGED callerVars
        /\ UNCHANGED restVars
        /\ UNCHANGED <<max_retries, confidence_threshold, schema_tables, request, attempts,
                       generated, exec_calls>>

\* self.executor.execute(generated_query) (sql_rag_chain.py:209-214)
ExecuteStep ==
    \E conn \in ConnectorOutcomes :
        /\ pc = "execute"
        /\ LET q == generated[1].query
               out == execute(_execution_history, q, conn, max_rows, enable_select_only, now)
           IN  /\ _execution_history' = out.history
               /\ exec_out' = << [query |-> q, conn |-> conn, result |-> out.result, sent |-> out.sent] >>
               /\ exec_calls' = Append(exec_calls, q)
        /\ pc' = "format"
        /\ UNCHANGED <<max_rows, enable_select_only, now>>
        /\ UNCHANGED callerVars
        /\ UNCHANGED restVars
        /\ UNCHANGED <<max_retries, confidence_threshold, schema_tables, request, attempts,
                       generated, validated, faults, response>>

\* format_for_llm and the response (sql_rag_chain.py:216-229)
FormatStep ==
    \E fault \in { <<>>, <<FormatError>> } :
        /\ pc = "format"
        /\ IF fault # <<>>
           THEN Handle("format", fault[1])
           ELSE /\ pc' = "done"
                /\ response' = << executed_response(request, generated[1], exec_out[1].result) >>
                /\ UNCHANGED faults
        /\ UNCHANGED execVars
        /\ UNCHANGED callerVars
        /\ UNCHANGED restVars
        /\ UNCHANGED <<max_retries, confidence_threshold, schema_tables, request, attempts,
                       generated, validated, exec_calls>>

ChainNext ==
    \/ BeginProcess
    \/ Retrieve
    \/ GenerateAttempt
    \/ GenerateExhausted
    \/ CheckGenerated
    \/ ValidateStep
    \/ ExecuteStep
    \/ FormatStep

ChainSpec == ChainInit /\ [][ChainNext]_vars

(* ------------------- the audit history over many calls ----------------- *)

\* the number of execute calls made on one executor
MaxExecutions == 150

\* how many of them the connector answers by raising
MaxUnrecorded == 1

\* the query of the n-th call: a read on the odd calls, a statement the executor
\* rejects on the even ones
AuditQuery(n) == IF n % 2 = 1 THEN <<"S","E","L","E","C","T"," ","*"," ","F","R","O","M"," ","u","s","e","r","s">> ELSE <<"D","R","O","P"," ","T","A","B","L","E"," ","u","s","e","r","s">>

ConnectorSuccess == [raises |-> FALSE, status |-> "success", row_count |-> 2, error_message |-> None]

ConnectorRaises == [raises |-> TRUE, status |-> "error", row_count |-> 0, error_message |-> "connection already closed"]

AuditInit ==
    /\ _execution_history = <<>>
    /\ max_rows = 1000
    /\ enable_select_only = TRUE
    /\ now = 0
    /\ exec_out = <<>>
    /\ max_retries = 2
    /\ confidence_threshold = 500
    /\ schema_tables = TestSchema
    /\ ChainIdle
    /\ NoCallers
    /\ RestIdle

\* the next QueryExecutor.execute call, one tick after the previous one
AuditExecute ==
    \E conn \in {ConnectorSuccess, ConnectorRaises} :
        /\ now < MaxExecutions
        /\ conn.raises => (now % 2 = 0 /\ Cardinality(unrecorded) < MaxUnrecorded)
        /\ LET out == execute(_execution_history, AuditQuery(now + 1), conn, max_rows,
                              enable_select_only, now + 1)
           IN  /\ _execution_history' = out.history
               \* the connector was called and raised: execute returned from its
               \* except Exception branch, which does not call _track_execution
               /\ unrecorded' = IF out.sent # <<>> /\ conn.raises
                                THEN unrecorded \cup {now + 1}
                                ELSE unrecorded
        /\ now' = now + 1
        /\ exec_out' = <<>>
        /\ UNCHANGED <<max_rows, enable_select_only, threads>>
        /\ UNCHANGED chainVars
        /\ UNCHANGED restVars

\* the limits get_execution_history is called with; 10 is the default
HistoryLimits == {0, 1, 10, 1000}

\* SQLRAGChain.get_execution_history(limit), which hands the call on to
\* QueryExecutor.get_execution_history(limit)
GetExecutionHistory ==
    \E limit \in HistoryLimits :
        /\ exec_out' = << [op |-> "get_execution_history", limit |-> limit,
                           history |-> _execution_history,
                           result |-> get_execution_history(_execution_history, limit)] >>
        /\ UNCHANGED <<_execution_history, max_rows, enable_select_only, now, unrecorded, threads>>
        /\ UNCHANGED chainVars
        /\ UNCHANGED restVars

AuditNext == AuditExecute \/ GetExecutionHistory

AuditSpec == AuditInit /\ [][AuditNext]_vars

(* --------------- concurrent execute calls on one executor -------------- *)

\* the number of execute calls of each thread
MaxThreadCalls == 2

\* the records of n earlier calls made one after the other
EarlierHistory(n) ==
    [k \in 1..n |-> ExecutionRecord(<<"S","E","L","E","C","T"," ","*"," ","F","R","O","M"," ","u","s","e","r","s">>,
                                    execute(<<>>, <<"S","E","L","E","C","T"," ","*"," ","F","R","O","M"," ","u","s","e","r","s">>, ConnectorSuccess, 1000, TRUE, k).result,
                                    k)]

ConcInit ==
    /\ \E n \in (HistoryCap - 2)..HistoryCap :
           /\ _execution_history = EarlierHistory(n)
           /\ now = n
    /\ max_rows = 1000
    /\ enable_select_only = TRUE
    /\ exec_out = <<>>
    /\ max_retries = 2
    /\ confidence_threshold = 500
    /\ schema_tables = TestSchema
    /\ ChainIdle
    /\ NoCallers
    /\ RestIdle

\* thread t runs execute up to self._execution_history.append(execution_record)
\* (executor.py:64-106, 242-251)
ThreadAppend(t) ==
    /\ threads[t].pc = "idle"
    /\ threads[t].calls < MaxThreadCalls
    /\ LET q == <<"S","E","L","E","C","T"," ","*"," ","F","R","O","M"," ","u","s","e","r","s">>
           r == execute(<<>>, q, ConnectorSuccess, max_rows, enable_select_only, now + 1).result
       IN  _execution_history' = Append(_execution_history, ExecutionRecord(q, r, now + 1))
    /\ now' = now + 1
    /\ threads' = [threads EXCEPT ![t].pc = "appended", ![t].calls = @ + 1]
    /\ UNCHANGED <<max_rows, enable_select_only, exec_out, unrecorded>>
    /\ UNCHANGED chainVars
    /\ UNCHANGED restVars

\* if len(self._execution_history) > 100 (executor.py:254)
ThreadCheck(t) ==
    /\ threads[t].pc = "appended"
    /\ threads' = [threads EXCEPT ![t].pc = IF Len(_execution_history) > HistoryCap THEN "slice" ELSE "idle"]
    /\ UNCHANGED <<execVars, unrecorded>>
    /\ UNCHANGED chainVars
    /\ UNCHANGED restVars

\* the right-hand side self._execution_history[-100:] (executor.py:255)
ThreadSlice(t) ==
    /\ threads[t].pc = "slice"
    /\ threads' = [threads EXCEPT ![t].pc = "assign", ![t].trimmed = LastN(_execution_history, HistoryCap)]
    /\ UNCHANGED <<execVars, unrecorded>>
    /\ UNCHANGED chainVars
    /\ UNCHANGED restVars

\* the assignment self._execution_history = ... (executor.py:255)
ThreadAssign(t) ==
    /\ threads[t].pc = "assign"
    /\ _execution_history' = threads[t].trimmed
    /\ threads' = [threads EXCEPT ![t].pc = "idle", ![t].trimmed = <<>>]
    /\ UNCHANGED <<max_rows, enable_select_only, now, exec_out, unrecorded>>
    /\ UNCHANGED chainVars
    /\ UNCHANGED restVars

ConcNext ==
    \E t \in Threads :
        \/ ThreadAppend(t)
        \/ ThreadCheck(t)
        \/ ThreadSlice(t)
        \/ ThreadAssign(t)

ConcSpec == ConcInit /\ [][ConcNext]_vars

(* ----------------------------- SchemaManager --------------------------- *)

\* schema_manager.py:340: the versions kept in the history
VersionsKept == 10

\* the DatabaseSchema built from a raw catalog by the n-th fetch at time t
\* (schema_manager.py:85-112); n stands for the identity of the instance
DatabaseSchema(n, tables, t) == [id |-> n, tables |-> tables, last_updated |-> t]

\* _is_cache_valid with the age test cache_age >= self.cache_ttl
_is_cache_valid_expires_early(valid, cache, cache_time, ttl, t) ==
    IF ~ valid \/ cache = <<>>
    THEN [result |-> FALSE, _cache_valid |-> valid]
    ELSE IF t - cache_time >= ttl
         THEN [result |-> FALSE, _cache_valid |-> FALSE]
         ELSE [result |-> TRUE, _cache_valid |-> valid]

\* SchemaManager._is_cache_valid at time t: its answer and the new _cache_valid
_is_cache_valid(valid, cache, cache_time, ttl, t) ==
    IF ~ valid \/ cache = <<>>
    THEN [result |-> FALSE, _cache_valid |-> valid]
    ELSE IF t - cache_time > ttl
         THEN [result |-> FALSE, _cache_valid |-> FALSE]
         ELSE [result |-> TRUE, _cache_valid |-> valid]

\* the version_record of _track_version (schema_manager.py:329-334)
version_record(current, schema, t) ==
    [version |-> current, timestamp |-> t, table_count |-> Len(schema.tables),
     tables |-> [i \in 1..Len(schema.tables) |-> schema.tables[i].table_name]]

\* _track_version with the trim keeping the oldest entries
_track_version_keeps_oldest(versions, current, schema, t) ==
    LET appended == Append(versions, version_record(current, schema, t))
    IN  [_schema_versions |-> IF Len(appended) > VersionsKept
                              THEN Take(appended, VersionsKept) ELSE appended,
         _current_version |-> current + 1]

\* SchemaManager._track_version: the new _schema_versions and _current_version
_track_version(versions, current, schema, t) ==
    LET appended == Append(versions, version_record(current, schema, t))
    IN  [_schema_versions |-> IF Len(appended) > VersionsKept
                              THEN LastN(appended, VersionsKept) ELSE appended,
         _current_version |-> current + 1]

\* SchemaManager.get_schema_history
get_schema_history(versions, limit) == LastN(versions, limit)

\* what connector.get_schema(use_cache=False) does: it returns the catalog, it returns
\* {"tables": {}} because its query failed, or it raises
FetchOutcomes ==
    { [raises |-> FALSE, tables |-> TestSchema],
      [raises |-> FALSE, tables |-> EmptySchema],
      [raises |-> TRUE, tables |-> <<>>] }

\* the clock stops here
MaxClock == 4

\* the calls of connector.get_schema in one behaviour in which time passes
MaxFetches == 4

\* the calls of connector.get_schema in one behaviour of back-to-back calls
MaxVersions == 12

CacheTtlChoices == {1, 2}

\* a snapshot was fetched at most cache_ttl ago and the cache was not invalidated since
Fresh ==
    /\ last_fetch # <<>>
    /\ ~ last_fetch[1].invalidated
    /\ now - last_fetch[1].at <= cache_ttl

ManagerInit ==
    /\ ManagerIdle
    /\ cache_ttl \in CacheTtlChoices
    /\ enable_versioning \in BOOLEAN
    /\ pool = <<>>
    /\ checked = <<>>
    /\ _execution_history = <<>>
    /\ max_rows = 1000
    /\ enable_select_only = TRUE
    /\ now = 0
    /\ exec_out = <<>>
    /\ max_retries = 2
    /\ confidence_threshold = 500
    /\ schema_tables = TestSchema
    /\ ChainIdle
    /\ NoCallers

\* SchemaManager.get_schema(use_cache, refresh) as one step of a single caller
GetSchemaCall(op, use_cache, refresh, outcome) ==
    LET chk == IF use_cache /\ ~ refresh
               THEN _is_cache_valid(_cache_valid, _schema_cache, _cache_time, cache_ttl, now)
               ELSE [result |-> FALSE, _cache_valid |-> _cache_valid]
        n == fetches.calls + 1
        schema == DatabaseSchema(n, outcome.tables, now)
        tracked == IF enable_versioning
                   THEN _track_version(_schema_versions, _current_version, schema, now)
                   ELSE [_schema_versions |-> _schema_versions, _current_version |-> _current_version]
        entry == [op |-> op, fresh |-> Fresh, last |-> last_fetch]
    IN  IF chk.result
        THEN /\ schema_out' = << entry @@ [fetched |-> 0, raised |-> FALSE, returned |-> _schema_cache] >>
             /\ _cache_valid' = chk._cache_valid
             /\ UNCHANGED <<_schema_cache, _cache_time, _schema_versions, _current_version,
                            fetches, last_fetch>>
        ELSE IF outcome.raises
        THEN /\ schema_out' = << entry @@ [fetched |-> 1, raised |-> TRUE, returned |-> <<>>] >>
             /\ _cache_valid' = chk._cache_valid
             /\ fetches' = [fetches EXCEPT !.calls = @ + 1]
             /\ UNCHANGED <<_schema_cache, _cache_time, _schema_versions, _current_version, last_fetch>>
        ELSE /\ schema_out' = << entry @@ [fetched |-> 1, raised |-> FALSE, returned |-> <<schema>>] >>
             /\ _schema_cache' = <<schema>>
             /\ _cache_time' = now
             /\ _cache_valid' = TRUE
             /\ _schema_versions' = tracked._schema_versions
             /\ _current_version' = tracked._current_version
             /\ fetches' = [calls |-> fetches.calls + 1, returned |-> fetches.returned + 1]
             /\ last_fetch' = << [id |-> n, at |-> now, invalidated |-> FALSE] >>

\* get_schema() with its default arguments, while fewer than limit fetches were made
GetSchemaWithin(limit) ==
    \E outcome \in FetchOutcomes :
        /\ fetches.calls < limit
        /\ GetSchemaCall("get_schema", TRUE, FALSE, outcome)
        /\ UNCHANGED <<cache_ttl, enable_versioning, _tables_loaded, pool, checked>>
        /\ UNCHANGED <<execVars, chainVars, callerVars>>

\* SchemaManager.refresh_schema(invalidate_all): the optional clear of the per-table
\* cache, then get_schema(use_cache=False, refresh=True)
RefreshSchemaWithin(limit) ==
    \E outcome \in FetchOutcomes, invalidate_all \in BOOLEAN :
        /\ fetches.calls < limit
        /\ _tables_loaded' = IF invalidate_all THEN <<>> ELSE _tables_loaded
        /\ GetSchemaCall("refresh_schema", FALSE, TRUE, outcome)
        /\ UNCHANGED <<cache_ttl, enable_versioning, pool, checked>>
        /\ UNCHANGED <<execVars, chainVars, callerVars>>

GetSchema == GetSchemaWithin(MaxFetches)

RefreshSchema == RefreshSchemaWithin(MaxFetches)

\* SchemaManager.invalidate_cache
InvalidateCache ==
    /\ _cache_valid \/ _tables_loaded # <<>>
    /\ _cache_valid' = FALSE
    /\ last_fetch' = IF last_fetch = <<>> THEN <<>>
                     ELSE << [last_fetch[1] EXCEPT !.invalidated = TRUE] >>
    /\ _tables_loaded' = <<>>
    /\ schema_out' = <<>>
    /\ UNCHANGED <<_schema_cache, _cache_time, _schema_versions, _current_version,
                   cache_ttl, enable_versioning, fetches, pool, checked>>
    /\ UNCHANGED <<execVars, chainVars, callerVars>>

\* time passes between two calls
Tick ==
    /\ now < MaxClock
    /\ now' = now + 1
    /\ UNCHANGED <<_execution_history, max_rows, enable_select_only, exec_out>>
    /\ UNCHANGED <<chainVars, callerVars, restVars>>

ManagerNext ==
    \/ GetSchema
    \/ RefreshSchema
    \/ InvalidateCache
    \/ Tick

ManagerSpec == ManagerInit /\ [][ManagerNext]_vars

\* calls made back to back, with versioning enabled
VersionInit == ManagerInit /\ enable_versioning

GetSchemaAgain == GetSchemaWithin(MaxVersions)

RefreshSchemaAgain == RefreshSchemaWithin(MaxVersions)

VersionNext ==
    \/ GetSchemaAgain
    \/ RefreshSchemaAgain
    \/ InvalidateCache

VersionSpec == VersionInit /\ [][VersionNext]_vars

(* ------------- concurrent get_schema calls on one SchemaManager -------- *)

\* a thread that is not inside a SchemaManager call
IdleReader ==
    [pc |-> "idle", calls |-> 0, view |-> <<>>, returned |-> <<>>, schema |-> <<>>,
     wrote |-> {}, record |-> <<>>, loaded |-> 0,
     invalidated |-> <<>>, forced |-> <<>>, hit |-> FALSE]

SharedInit ==
    /\ ManagerIdle
    /\ cache_ttl = 3600
    /\ enable_versioning = TRUE
    /\ pool = <<>>
    /\ checked = <<>>
    /\ _execution_history = <<>>
    /\ max_rows = 1000
    /\ enable_select_only = TRUE
    /\ now = 0
    /\ exec_out = <<>>
    /\ max_retries = 2
    /\ confidence_threshold = 500
    /\ schema_tables = TestSchema
    /\ ChainIdle
    /\ unrecorded = {}
    /\ threads = [t \in Threads |-> IdleReader]

\* what a step of thread t inside SchemaManager leaves alone, besides the fields it names
SharedFrame ==
    /\ UNCHANGED <<cache_ttl, enable_versioning, _tables_loaded, last_fetch, schema_out, pool, checked>>
    /\ UNCHANGED <<_execution_history, max_rows, enable_select_only, exec_out, unrecorded>>
    /\ UNCHANGED chainVars

\* when thread t starts a call: no other thread is inside SchemaManager, and
\* invalidate_cache was called after the last fetch from the backend; the call
\* then remembers how many fetches had been made
InvalidationPending(t) ==
    /\ \A u \in Threads \ {t} : threads[u].pc = "idle"
    /\ \E u \in Threads : threads[u].invalidated = << fetches.calls >>

\* thread t calls invalidate_cache() (schema_manager.py:224-228)
ThreadInvalidate(t) ==
    /\ threads[t].pc = "idle"
    /\ threads[t].calls < MaxThreadCalls
    /\ _cache_valid' = FALSE
    /\ _tables_loaded' = <<>>
    /\ threads' = [threads EXCEPT ![t].calls = @ + 1, ![t].invalidated = << fetches.calls >>]
    /\ UNCHANGED <<_schema_cache, _cache_time, _schema_versions, _current_version, fetches, now>>
    /\ UNCHANGED <<cache_ttl, enable_versioning, last_fetch, schema_out, pool, checked>>
    /\ UNCHANGED <<_execution_history, max_rows, enable_select_only, exec_out, unrecorded>>
    /\ UNCHANGED chainVars

\* thread t calls get_schema() or refresh_schema() (schema_manager.py:63, 207-222)
ThreadCall(t) ==
    \E op \in {"get_schema", "refresh_schema"} :
        /\ threads[t].pc = "idle"
        /\ threads[t].calls < MaxThreadCalls
        /\ threads' = [threads EXCEPT ![t].pc = IF op = "get_schema" THEN "read_valid" ELSE "fetch",
                                      ![t].calls = @ + 1,
                                      ![t].view = <<>>,
                                      ![t].returned = <<>>,
                                      ![t].forced = IF op = "get_schema" /\ InvalidationPending(t)
                                                    THEN << fetches.calls >> ELSE <<>>,
                                      ![t].hit = FALSE]
        /\ UNCHANGED <<managerVars, fetches, now>>
        /\ SharedFrame

\* _is_cache_valid reads self._cache_valid (schema_manager.py:248)
ReadValid(t) ==
    /\ threads[t].pc = "read_valid"
    /\ threads' = [threads EXCEPT ![t].view = << _cache_valid >>,
                                  ![t].pc = IF _cache_valid THEN "read_cache" ELSE "fetch"]
    /\ UNCHANGED <<managerVars, fetches, now>>
    /\ SharedFrame

\* _is_cache_valid reads self._schema_cache (schema_manager.py:248)
ReadCache(t) ==
    /\ threads[t].pc = "read_cache"
    /\ threads' = [threads EXCEPT ![t].view = Append(@, _schema_cache),
                                  ![t].pc = IF _schema_cache # <<>> THEN "read_time" ELSE "fetch"]
    /\ UNCHANGED <<managerVars, fetches, now>>
    /\ SharedFrame

\* _is_cache_valid reads self._cache_time and tests the age (schema_manager.py:251-257)
ReadTime(t) ==
    /\ threads[t].pc = "read_time"
    /\ threads' = [threads EXCEPT ![t].view = Append(@, _cache_time),
                                  ![t].pc = IF now - _cache_time > cache_ttl THEN "fetch" ELSE "return_cached"]
    /\ _cache_valid' = IF now - _cache_time > cache_ttl THEN FALSE ELSE _cache_valid
    /\ UNCHANGED <<_schema_cache, _cache_time, _schema_versions, _current_version, fetches, now>>
    /\ SharedFrame

\* return self._schema_cache (schema_manager.py:78)
ReturnCached(t) ==
    /\ threads[t].pc = "return_cached"
    /\ threads' = [threads EXCEPT ![t].returned = _schema_cache, ![t].pc = "idle", ![t].hit = TRUE]
    /\ UNCHANGED <<managerVars, fetches, now>>
    /\ SharedFrame

\* the fetch and the construction of the DatabaseSchema (schema_manager.py:83-112);
\* the fetch takes one tick
Fetch(t) ==
    /\ threads[t].pc = "fetch"
    /\ now' = now + 1
    /\ fetches' = [calls |-> fetches.calls + 1, returned |-> fetches.returned + 1]
    /\ threads' = [threads EXCEPT ![t].schema = DatabaseSchema(fetches.calls + 1, TestSchema, now + 1),
                                  ![t].pc = "store_cache"]
    /\ UNCHANGED managerVars
    /\ SharedFrame

\* self._schema_cache = schema (schema_manager.py:115)
StoreCache(t) ==
    /\ threads[t].pc = "store_cache"
    /\ _schema_cache' = << threads[t].schema >>
    /\ threads' = [threads EXCEPT ![t].pc = "store_time"]
    /\ UNCHANGED <<_cache_time, _cache_valid, _schema_versions, _current_version, fetches, now>>
    /\ SharedFrame

\* self._cache_time = time.time() (schema_manager.py:116)
StoreTime(t) ==
    /\ threads[t].pc = "store_time"
    /\ _cache_time' = now
    /\ threads' = [threads EXCEPT ![t].pc = "store_valid",
                                  ![t].wrote = @ \cup { <<threads[t].schema.id, now>> }]
    /\ UNCHANGED <<_schema_cache, _cache_valid, _schema_versions, _current_version, fetches, now>>
    /\ SharedFrame

\* self._cache_valid = True (schema_manager.py:117-120)
StoreValid(t) ==
    /\ threads[t].pc = "store_valid"
    /\ _cache_valid' = TRUE
    /\ threads' = [threads EXCEPT ![t].pc = IF enable_versioning THEN "version_record" ELSE "idle",
                                  ![t].returned = IF enable_versioning THEN @ ELSE << threads[t].schema >>]
    /\ UNCHANGED <<_schema_cache, _cache_time, _schema_versions, _current_version, fetches, now>>
    /\ SharedFrame

\* _track_version builds version_record from self._current_version (schema_manager.py:329-334)
VersionRecord(t) ==
    /\ threads[t].pc = "version_record"
    /\ threads' = [threads EXCEPT ![t].record = << version_record(_current_version, threads[t].schema, now) >>,
                                  ![t].pc = "version_append"]
    /\ UNCHANGED <<managerVars, fetches, now>>
    /\ SharedFrame

\* self._schema_versions.append(version_record) (schema_manager.py:336)
VersionAppend(t) ==
    /\ threads[t].pc = "version_append"
    /\ _schema_versions' = Append(_schema_versions, threads[t].record[1])
    /\ threads' = [threads EXCEPT ![t].pc = "version_load"]
    /\ UNCHANGED <<_schema_cache, _cache_time, _cache_valid, _current_version, fetches, now>>
    /\ SharedFrame

\* self._current_version += 1 reads the counter (schema_manager.py:337)
VersionLoad(t) ==
    /\ threads[t].pc = "version_load"
    /\ threads' = [threads EXCEPT ![t].loaded = _current_version, ![t].pc = "version_store"]
    /\ UNCHANGED <<managerVars, fetches, now>>
    /\ SharedFrame

\* self._current_version += 1 writes the counter (schema_manager.py:337)
VersionStore(t) ==
    /\ threads[t].pc = "version_store"
    /\ _current_version' = threads[t].loaded + 1
    /\ threads' = [threads EXCEPT ![t].pc = "version_trim"]
    /\ UNCHANGED <<_schema_cache, _cache_time, _cache_valid, _schema_versions, fetches, now>>
    /\ SharedFrame

\* the trim to the last 10 versions and the return (schema_manager.py:340-343, 124)
VersionTrim(t) ==
    /\ threads[t].pc = "version_trim"
    /\ _schema_versions' = IF Len(_schema_versions) > VersionsKept
                           THEN LastN(_schema_versions, VersionsKept) ELSE _schema_versions
    /\ threads' = [threads EXCEPT ![t].pc = "idle", ![t].returned = << threads[t].schema >>]
    /\ UNCHANGED <<_schema_cache, _cache_time, _cache_valid, _current_version, fetches, now>>
    /\ SharedFrame

SharedNext ==
    \E t \in Threads :
        \/ ThreadCall(t)
        \/ ThreadInvalidate(t)
        \/ ReadValid(t)
        \/ ReadCache(t)
        \/ ReadTime(t)
        \/ ReturnCached(t)
        \/ Fetch(t)
        \/ StoreCache(t)
        \/ StoreTime(t)
        \/ StoreValid(t)
        \/ VersionRecord(t)
        \/ VersionAppend(t)
        \/ VersionLoad(t)
        \/ VersionStore(t)
        \/ VersionTrim(t)

SharedSpec == SharedInit /\ [][SharedNext]_vars

(* --------------------- SQLConnector.get_connection --------------------- *)

\* the passes of the while loop of get_connection before pool_timeout has elapsed
MaxWaits == 2

PoolSizeChoices == {1, 2}

\* a caller that is not inside get_connection
IdleCaller ==
    [pc |-> "idle", calls |-> 0, waits |-> 0, conn |-> 0, acquired |-> 0, returned |-> 0,
     thrown |-> FALSE, exit |-> "none", suspended |-> 0]

\* the connections of the pool that are not checked out
FreeConnections == {c \in DOMAIN pool : pool[c] = 0}

PoolInit ==
    /\ \E n \in PoolSizeChoices : pool = [c \in 1..n |-> 0]
    /\ threads = [t \in Threads |-> IdleCaller]
    /\ unrecorded = {}
    /\ ManagerIdle
    /\ cache_ttl = 3600
    /\ enable_versioning = TRUE
    /\ checked = <<>>
    /\ _execution_history = <<>>
    /\ max_rows = 1000
    /\ enable_select_only = TRUE
    /\ now = 0
    /\ exec_out = <<>>
    /\ max_retries = 2
    /\ confidence_threshold = 500
    /\ schema_tables = TestSchema
    /\ ChainIdle

\* what a step of get_connection leaves alone, besides pool and threads
PoolFrame ==
    /\ UNCHANGED <<managerVars, managerLog, checked, unrecorded>>
    /\ UNCHANGED <<execVars, chainVars>>

\* with connector.get_connection() as conn: the generator starts (connector.py:128-130)
EnterGetConnection(t) ==
    /\ threads[t].pc = "idle"
    /\ threads[t].calls < MaxThreadCalls
    /\ threads[t].suspended = 0
    /\ threads' = [threads EXCEPT ![t] = [IdleCaller EXCEPT !.pc = "loop", !.calls = threads[t].calls + 1]]
    /\ UNCHANGED pool
    /\ PoolFrame

\* conn = self.pool.getconn() hands out a free connection, and the generator yields it
\* (connector.py:134-139). A generator that yields after the exception of the with-block
\* was thrown into it makes the context manager raise RuntimeError: it closes the
\* generator first, which runs the finally clause, or it leaves the generator suspended
\* at the yield, depending on the version of contextlib
GetConn(t) ==
    \E c \in FreeConnections, closes \in BOOLEAN :
        /\ threads[t].pc = "loop"
        /\ threads[t].waits < MaxWaits
        /\ IF ~ threads[t].thrown
           THEN /\ closes
                /\ pool' = [pool EXCEPT ![c] = t]
                /\ threads' = [threads EXCEPT ![t].pc = "body", ![t].conn = c, ![t].acquired = @ + 1]
           ELSE IF closes
           THEN /\ pool' = pool
                /\ threads' = [threads EXCEPT ![t].pc = "idle", ![t].conn = 0, ![t].acquired = @ + 1,
                                              ![t].returned = @ + 1, ![t].exit = "RuntimeError"]
           ELSE /\ pool' = [pool EXCEPT ![c] = t]
                /\ threads' = [threads EXCEPT ![t].pc = "idle", ![t].conn = c, ![t].acquired = @ + 1,
                                              ![t].suspended = c, ![t].exit = "RuntimeError"]
        /\ PoolFrame

\* self.pool.getconn() raises because the pool is exhausted; the except clause sleeps
\* and the loop goes on (connector.py:143-145)
PoolExhausted(t) ==
    /\ threads[t].pc = "loop"
    /\ threads[t].waits < MaxWaits
    /\ FreeConnections = {}
    /\ threads' = [threads EXCEPT ![t].waits = @ + 1]
    /\ UNCHANGED pool
    /\ PoolFrame

\* the loop ends: raise TimeoutError (connector.py:132, 147)
PoolTimeout(t) ==
    /\ threads[t].pc = "loop"
    /\ threads[t].waits >= MaxWaits
    /\ threads' = [threads EXCEPT ![t].pc = "idle", ![t].exit = "TimeoutError"]
    /\ UNCHANGED pool
    /\ PoolFrame

\* the with-block ends normally: finally putconn(conn), return (connector.py:140-142)
BodyReturns(t) ==
    /\ threads[t].pc = "body"
    /\ pool' = [pool EXCEPT ![threads[t].conn] = 0]
    /\ threads' = [threads EXCEPT ![t].pc = "idle", ![t].conn = 0, ![t].returned = @ + 1,
                                  ![t].exit = "normal"]
    /\ PoolFrame

\* the with-block raises an Exception: it is thrown into the generator at the yield,
\* finally putconn(conn) runs, and the except clause of the loop catches the exception,
\* sleeps and lets the loop go on (connector.py:138-145)
BodyRaises(t) ==
    /\ threads[t].pc = "body"
    /\ pool' = [pool EXCEPT ![threads[t].conn] = 0]
    /\ threads' = [threads EXCEPT ![t].pc = "loop", ![t].conn = 0, ![t].returned = @ + 1,
                                  ![t].thrown = TRUE, ![t].waits = @ + 1]
    /\ PoolFrame

\* the suspended generator is collected: its finally clause returns the connection
Collect(t) ==
    /\ threads[t].suspended # 0
    /\ pool' = [pool EXCEPT ![threads[t].suspended] = 0]
    /\ threads' = [threads EXCEPT ![t].suspended = 0, ![t].conn = 0, ![t].returned = @ + 1]
    /\ PoolFrame

PoolNext ==
    \E t \in Threads :
        \/ EnterGetConnection(t)
        \/ GetConn(t)
        \/ PoolExhausted(t)
        \/ PoolTimeout(t)
        \/ BodyReturns(t)
        \/ BodyRaises(t)
        \/ Collect(t)

PoolSpec == PoolInit /\ [][PoolNext]_vars

(* ------------------ QueryExecutor._add_result_limit alone -------------- *)

LimitHeads ==
    { <<"S","E","L","E","C","T"," ","*"," ","F","R","O","M"," ","u","s","e","r","s">>, <<"s","e","l","e","c","t"," ","i","d"," ","f","r","o","m"," ","r","a","t","e","_","l","i","m","i","t","s">>,
      <<"S","E","L","E","C","T"," ","*"," ","F","R","O","M"," ","(","S","E","L","E","C","T"," ","*"," ","F","R","O","M"," ","o","r","d","e","r","s"," ","L","I","M","I","T"," ","5",")"," ","t">>, <<"S","E","L","E","C","T"," ","'","l","i","m","i","t","'"," ","F","R","O","M"," ","u","s","e","r","s">>,
      <<" "," ","S","E","L","E","C","T"," ","n","a","m","e"," ","F","R","O","M"," ","u","s","e","r","s">> }

LimitTails ==
    { <<>>, <<";">>, <<" ","L","I","M","I","T"," ","1","0">>, <<" ","l","i","m","i","t"," ","5","0","0","0">>, <<" ","L","I","M","I","T"," ","5","0","0","0",";">>, <<" "," ","\n">>,
      <<" ","L","i","m","i","t"," "," ","1","0","0","0"," ">>, <<" ","L","I","M","I","T"," ","1","0","0","1">> }

LimitQueries == { h \o t : h \in LimitHeads, t \in LimitTails }

PureInitOn(inputs, schemas) ==
    /\ checked \in { << [input |-> i, output |-> <<>>] >> : i \in inputs }
    /\ pool = <<>>
    /\ ManagerIdle
    /\ cache_ttl = 3600
    /\ enable_versioning = TRUE
    /\ _execution_history = <<>>
    /\ enable_select_only = TRUE
    /\ now = 0
    /\ exec_out = <<>>
    /\ max_retries = 2
    /\ confidence_threshold = 500
    /\ schema_tables \in schemas
    /\ ChainIdle
    /\ NoCallers

PureInit(inputs) == PureInitOn(inputs, {TestSchema})

LimitInit ==
    /\ max_rows \in MaxRowsChoices
    /\ PureInit(LimitQueries)

\* query = self._add_result_limit(...) applied to the input, and again to its result
ApplyLimit ==
    /\ checked[1].output = <<>>
    /\ LET once == _add_result_limit(checked[1].input, max_rows)
       IN  checked' = << [checked[1] EXCEPT !.output = << once, _add_result_limit(once, max_rows) >>] >>
    /\ UNCHANGED <<managerVars, managerLog, pool>>
    /\ UNCHANGED <<execVars, chainVars, callerVars>>

LimitNext == ApplyLimit

LimitSpec == LimitInit /\ [][LimitNext]_vars

(* ---------------------- QueryValidator.validate alone ------------------ *)

\* a snapshot of a catalog whose table names are mixed-case, hold a keyword of
\* the validator as a substring, or are not made of word characters only
CatalogSchema ==
    << [table_name |-> <<"A","c","c","o","u","n","t","s">>, columns |-> << <<"i","d">>, <<"o","w","n","e","r">> >>],
       [table_name |-> <<"u","s","e","r","_","u","p","d","a","t","e","s">>, columns |-> << <<"i","d">>, <<"u","s","e","r","_","i","d">> >>],
       [table_name |-> <<"o","r","d","e","r","-","i","t","e","m","s">>, columns |-> << <<"i","d">>, <<"o","r","d","e","r","_","i","d">> >>] >>

ValidatorSchemas == {TestSchema, CatalogSchema}

\* str.capitalize on a name
capitalize(s) == IF s = <<>> THEN s ELSE upper(SubSeq(s, 1, 1)) \o lower(SubSeq(s, 2, Len(s)))

\* the spellings of a name that differ in letter case only
LetterCases(name) == {name, upper(name), lower(name), capitalize(name)}

SelectAllFrom == <<"S","E","L","E","C","T"," ","*"," ","F","R","O","M"," ">>

TableSpellings(tables) == UNION { LetterCases(tables[i].table_name) : i \in 1..Len(tables) }

\* "SELECT * FROM t" for the tables of the snapshots, in several letter cases
TableQueries ==
    { SelectAllFrom \o n : n \in UNION { TableSpellings(tables) : tables \in ValidatorSchemas } }

KeywordFrames ==
    { << <<>>, <<" ","T","A","B","L","E"," ","u","s","e","r","s">> >>,
      << <<"S","E","L","E","C","T"," ","*"," ","F","R","O","M"," ","u","s","e","r","s"," ","W","H","E","R","E"," ","n","o","t","e"," ","="," ","'">>, <<"'">> >>,
      << <<"W","I","T","H"," ","t"," ","A","S"," ","(","S","E","L","E","C","T"," ","i","d"," ","F","R","O","M"," ","u","s","e","r","s",")"," ">>, <<" ","o","r","d","e","r","s">> >> }

\* every keyword of the executor's list, upper and lower case, in each frame
KeywordQueries ==
    { f[1] \o k \o f[2] : f \in KeywordFrames,
                          k \in UNION { {dangerous_keywords[i], lower(dangerous_keywords[i])} : i \in 1..Len(dangerous_keywords) } }

StatementQueries ==
    { <<"S","E","L","E","C","T"," ","*"," ","F","R","O","M"," ","u","s","e","r","s",";">>, <<"S","E","L","E","C","T"," ","*"," ","F","R","O","M"," ","u","s","e","r","s",";"," ","S","E","L","E","C","T"," ","*"," ","F","R","O","M"," ","o","r","d","e","r","s">>,
      <<"S","E","L","E","C","T"," ","*"," ","F","R","O","M"," ","u","s","e","r","s",";"," ","S","E","L","E","C","T"," ","*"," ","F","R","O","M"," ","o","r","d","e","r","s",";">>, <<"S","E","L","E","C","T"," ","n","a","m","e"," ","F","R","O","M"," ","u","s","e","r","s"," ","W","H","E","R","E"," ","n","a","m","e"," ","="," ","'",";","'">>,
      <<"S","E","L","E","C","T"," ","*"," ","F","R","O","M"," ","u","s","e","r","s"," ",";"," "," ">>, <<"S","E","L","E","C","T"," ","*"," ","F","R","O","M"," ","u","s","e","r","s",";",";">>, <<>>, <<" "," "," ">>,
      <<"S","E","L","E","C","T"," ","c","o","u","n","t","(","i","d"," ","F","R","O","M"," ","u","s","e","r","s">>, <<"S","E","L","E","C","T"," ","*"," ","F","R","O","M"," ","u","s","e","r","s"," ","W","H","E","R","E"," ","n","a","m","e"," ","="," ","'","a">>,
      <<"E","X","P","L","A","I","N"," ","S","E","L","E","C","T"," ","*"," ","F","R","O","M"," ","u","s","e","r","s">>, <<"S","E","L","E","C","T"," ","*"," ","F","R","O","M"," ","p","a","y","m","e","n","t","s">> }

PatternQueries ==
    { <<"S","E","L","E","C","T"," ","*"," ","F","R","O","M"," ","u","s","e","r","s"," ","W","H","E","R","E"," ","i","d"," ","="," ","1"," ","O","R"," ","1","=","1">>, <<"S","E","L","E","C","T"," ","*"," ","F","R","O","M"," ","u","s","e","r","s"," ","W","H","E","R","E"," ","n","a","m","e"," ","="," ","'","'"," ","o","r"," ","'","1","'"," ","="," ","'","1","'">>,
      <<"S","E","L","E","C","T"," ","*"," ","F","R","O","M"," ","u","s","e","r","s",";","-","-">>, <<"S","E","L","E","C","T"," ","*"," ","F","R","O","M"," ","u","s","e","r","s"," ",";"," ","-","-"," ","a","l","l">>, <<"S","E","L","E","C","T"," ","*"," ","F","R","O","M"," ","u","s","e","r","s",";","/","*"," ","a","l","l"," ","*","/">>,
      <<"S","E","L","E","C","T"," ","i","d"," ","F","R","O","M"," ","u","s","e","r","s"," ","U","N","I","O","N"," ","S","E","L","E","C","T"," ","i","d"," ","F","R","O","M"," ","o","r","d","e","r","s">>,
      <<"s","e","l","e","c","t"," ","i","d"," ","f","r","o","m"," ","u","s","e","r","s"," ","u","n","i","o","n"," "," ","s","e","l","e","c","t"," ","u","s","e","r","_","i","d"," ","f","r","o","m"," ","o","r","d","e","r","s">>,
      <<"S","E","L","E","C","T"," ","i","d"," ","F","R","O","M"," ","u","s","e","r","s"," ","U","N","I","O","N"," ","A","L","L"," ","S","E","L","E","C","T"," ","i","d"," ","F","R","O","M"," ","o","r","d","e","r","s">>,
      <<"S","E","L","E","C","T"," ","i","d"," ","F","R","O","M"," ","u","s","e","r","s"," ","U","N","I","O","N"," ","S","E","L","E","C","T"," ","i","d"," ","F","R","O","M"," ","o","r","d","e","r","s"," ","W","H","E","R","E"," ","1","=","1"," ","O","R"," ","1","=","1">>,
      <<"S","E","L","E","C","T"," ","i","d"," ","F","R","O","M"," ","u","s","e","r","s"," ","U","N","I","O","N"," ","S","E","L","E","C","T"," ","i","d"," ","F","R","O","M"," ","p","a","y","m","e","n","t","s">> }

ValidatorQueries == TableQueries \cup KeywordQueries \cup StatementQueries \cup PatternQueries

\* re.search(r"UNION\s+SELECT", query_upper)
union_select(u) ==
    \E i \in 1..Len(u) :
        /\ matches_at(u, <<"U","N","I","O","N">>, i)
        /\ run_len(u, i + 5, Whitespace) >= 1
        /\ matches_at(u, <<"S","E","L","E","C","T">>, i + 5 + run_len(u, i + 5, Whitespace))

\* the logger.warning lines of QueryValidator._validate_safety
_validate_safety_warnings(query) ==
    IF union_select(upper(query))
    THEN << "Potential issue: UNION injection attempt (use with caution)" >>
    ELSE <<>>

ValidatorInit ==
    /\ max_rows = 1000
    /\ PureInitOn(ValidatorQueries, ValidatorSchemas)

\* is_valid, errors = validator.validate(SQLQuery(query_string=input))
ApplyValidate ==
    /\ checked[1].output = <<>>
    /\ LET v == validate(checked[1].input, schema_tables)
       IN  checked' = << [checked[1] EXCEPT !.output =
                            << [is_valid |-> v.is_valid, errors |-> v.errors,
                                warnings |-> _validate_safety_warnings(checked[1].input)] >>] >>
    /\ UNCHANGED <<managerVars, managerLog, pool>>
    /\ UNCHANGED <<execVars, chainVars, callerVars>>

ValidatorNext == ApplyValidate

ValidatorSpec == ValidatorInit /\ [][ValidatorNext]_vars

(* ------------- SchemaManager with its per-table cache and a validator --- *)

\* the table names asked for: one of the catalog, one of no catalog
TableNames == { <<"u","s","e","r","s">>, <<"p","a","y","m","e","n","t","s">> }

\* next((t for t in schema.tables if t.table_name == table_name), None), as <<>> or
\* <<the table object>>; the object is the one of that DatabaseSchema instance
table_named(schema, table_name) ==
    LET found == SelectSeq(schema.tables, LAMBDA t : t.table_name = table_name)
    IN  IF found = <<>> THEN <<>> ELSE << [snapshot |-> schema.id, table |-> found[1]] >>

\* the manager's state a caller can tell apart, and the backend calls made so far
ManagerState(cache, cache_time, valid, versions, current, loaded, f) ==
    [_schema_cache |-> cache, _cache_time |-> cache_time, _cache_valid |-> valid,
     _schema_versions |-> versions, _current_version |-> current, _tables_loaded |-> loaded,
     backend_calls |-> f.calls]

ValidatedQueries == { <<"S","E","L","E","C","T"," ","*"," ","F","R","O","M"," ","u","s","e","r","s">>, <<"D","R","O","P"," ","T","A","B","L","E"," ","u","s","e","r","s">> }

\* the calls of connector.get_schema in one behaviour with per-table lookups
MaxLookupFetches == 2

TableInit ==
    /\ ManagerInit
    /\ cache_ttl = 1
    /\ enable_versioning

\* SchemaManager.get_table_schema(table_name, lazy_load)
GetTableSchema ==
    \E table_name \in TableNames, lazy_load \in BOOLEAN, outcome \in FetchOutcomes :
        /\ IF lazy_load /\ table_name \in DOMAIN _tables_loaded
           THEN /\ checked' = << [op |-> "get_table_schema", input |-> table_name, lazy_load |-> lazy_load,
                                  raised |-> FALSE, output |-> << _tables_loaded[table_name] >>,
                                  cache |-> _schema_cache] >>
                /\ schema_out' = <<>>
                /\ UNCHANGED <<_schema_cache, _cache_time, _cache_valid, _schema_versions,
                               _current_version, _tables_loaded, fetches, last_fetch>>
           ELSE /\ fetches.calls < MaxLookupFetches
                /\ GetSchemaCall("get_table_schema", TRUE, FALSE, outcome)
                /\ LET got == schema_out'[1]
                       table == IF got.raised THEN <<>> ELSE table_named(got.returned[1], table_name)
                   IN  /\ _tables_loaded' = IF lazy_load /\ table # <<>>
                                            THEN (table_name :> table[1]) @@ _tables_loaded
                                            ELSE _tables_loaded
                       /\ checked' = << [op |-> "get_table_schema", input |-> table_name,
                                         lazy_load |-> lazy_load, raised |-> got.raised,
                                         output |-> table, cache |-> _schema_cache'] >>
        /\ UNCHANGED <<cache_ttl, enable_versioning, pool>>
        /\ UNCHANGED <<execVars, chainVars, callerVars>>

\* QueryValidator.validate(sql_query): _validate_schema_compatibility asks the
\* manager for the schema (validator.py:98)
ValidateCall ==
    \E query \in ValidatedQueries, outcome \in FetchOutcomes :
        /\ fetches.calls < MaxLookupFetches
        /\ UNCHANGED <<cache_ttl, enable_versioning, _tables_loaded, pool>>
        /\ GetSchemaCall("validate", TRUE, FALSE, outcome)
        /\ LET got == schema_out'[1]
           IN  checked' = << [op |-> "validate", input |-> query, lazy_load |-> FALSE,
                              raised |-> got.raised,
                              output |-> IF got.raised THEN <<>>
                                         ELSE << validate(query, got.returned[1].tables) >>,
                              cache |-> _schema_cache',
                              before |-> ManagerState(_schema_cache, _cache_time, _cache_valid, _schema_versions,
                                                      _current_version, _tables_loaded, fetches),
                              after |-> ManagerState(_schema_cache', _cache_time', _cache_valid', _schema_versions',
                                                     _current_version', _tables_loaded', fetches')] >>
        /\ UNCHANGED <<execVars, chainVars, callerVars>>

TableNext ==
    \/ GetSchemaWithin(MaxLookupFetches)
    \/ RefreshSchemaWithin(MaxLookupFetches)
    \/ InvalidateCache
    \/ Tick
    \/ GetTableSchema
    \/ ValidateCall

TableSpec == TableInit /\ [][TableNext]_vars

(* ------------------ SchemaManager.get_schema_context alone ------------- *)

\* ', '.join(columns)
RECURSIVE join_columns(_)
join_columns(columns) ==
    IF columns = <<>> THEN <<>>
    ELSE IF Len(columns) = 1 THEN columns[1]
    ELSE columns[1] \o <<","," ">> \o join_columns(Tail(columns))

TruncationMarker == <<".",".","."," ","(","t","r","u","n","c","a","t","e","d",")">>

\* the for loop of get_schema_context over the tables not yet visited
\* (schema_manager.py:198-203)
RECURSIVE context_lines(_, _, _)
context_lines(context, tables, max_length) ==
    IF tables = <<>> THEN context
    ELSE LET line == tables[1].table_name \o <<":"," ">> \o join_columns(tables[1].columns) \o <<"\n">>
         IN  IF Len(context) + Len(line) > max_length
             THEN context \o TruncationMarker
             ELSE context_lines(context \o line, Tail(tables), max_length)

\* SchemaManager.get_schema_context(max_length) on a snapshot
get_schema_context(database_name, tables, max_length) ==
    context_lines(<<"D","a","t","a","b","a","s","e",":"," ">> \o database_name \o <<"\n","\n">> \o <<"T","a","b","l","e","s"," ","a","n","d"," ","c","o","l","u","m","n","s",":","\n">>,
                  tables, max_length)

\* connector.database of the test fixture (tests/test_sql_rag_pipeline.py:29)
TestDatabase == <<"t","e","s","t","_","d","b">>

\* the max_length arguments; 2000 is the default
ContextLengths == {0, 20, 2000} \cup 36..100

ContextSchemas == {TestSchema, CatalogSchema, EmptySchema}

ContextInit ==
    /\ max_rows = 1000
    /\ PureInitOn(ContextLengths, ContextSchemas)

\* context = schema_manager.get_schema_context(max_length), called twice
ApplyContext ==
    /\ checked[1].output = <<>>
    /\ checked' = << [checked[1] EXCEPT !.output =
                        << get_schema_context(TestDatabase, schema_tables, checked[1].input),
                           get_schema_context(TestDatabase, schema_tables, checked[1].input) >>] >>
    /\ UNCHANGED <<managerVars, managerLog, pool>>
    /\ UNCHANGED <<execVars, chainVars, callerVars>>

ContextNext == ApplyContext

ContextSpec == ContextInit /\ [][ContextNext]_vars

(* --------------- QueryGenerator._estimate_confidence alone ------------- *)

\* the candidate texts whose confidence is estimated
Candidates ==
    { <<"S","E","L","E","C","T"," ","*"," ","F","R","O","M"," ","u","s","e","r","s"," ","J","O","I","N"," ","o","r","d","e","r","s"," ","O","N"," ","u","s","e","r","s",".","i","d"," ","="," ","o","r","d","e","r","s",".","u","s","e","r","_","i","d">>,
      <<"s","e","l","e","c","t"," ","n","a","m","e"," ","f","r","o","m"," ","u","s","e","r","s",","," ","o","r","d","e","r","s">>,
      <<"S","E","L","E","C","T"," ","*"," ","F","R","O","M"," ","u","s","e","r","s">>,
      <<"S","E","L","E","C","T"," ","*"," ","F","R","O","M"," ","p","a","y","m","e","n","t","s"," ","J","O","I","N"," ","u","s","e","r","s"," ","O","N"," ","1"," ","="," ","1"," ","J","O","I","N"," ","o","r","d","e","r","s"," ","O","N"," ","2"," ","="," ","2">>,
      <<"W","I","T","H"," ","t"," ","A","S"," ","(","S","E","L","E","C","T"," ","*"," ","F","R","O","M"," ","u","s","e","r","s"," ","J","O","I","N"," ","o","r","d","e","r","s"," ","O","N"," ","1"," ","="," ","1",")"," ","S","E","L","E","C","T"," ","*"," ","F","R","O","M"," ","t">>,
      <<"S","E","L","E","C","T"," ","u","s","e","r","s",".","i","d",","," ","o","r","d","e","r","s",".","i","d">>,
      <<"S","E","L","E","C","T"," ","1">>,
      <<"E","X","P","L","A","I","N"," ","u","s","e","r","s"," ","o","r","d","e","r","s">>,
      <<"S","E","L","E","C","T"," ","*"," ","F","R","O","M"," ","u","s","e","r","s"," ","J","O","I","N"," ","o","r","d","e","r","s"," ","O","N"," ","u","s","e","r","s",".","i","d"," ","="," ","o","r","d","e","r","s",".","u","s","e","r","_","i","d"," ","-","-"," ","a","l","l">>,
      <<"S","E","L","E","C","T"," ","*"," ","F","R","O","M"," ","u","s","e","r","s"," ","/","*"," ","a","l","l"," ","*","/">>,
      <<"S","E","L","E","C","T"," ","u","s","e","r","s",".","i","d",","," ","o","r","d","e","r","s",".","i","d"," ","-","-"," ","n","o","n","e">>,
      <<"-","-"," ","c","a","n","n","o","t"," ","a","n","s","w","e","r">> }

\* the names of the tables the retriever found relevant
RetrievedTables ==
    { << <<"u","s","e","r","s">> >>, << <<"u","s","e","r","s">>, <<"o","r","d","e","r","s">> >>, << <<"u","s","e","r","s">>, <<"o","r","d","e","r","s">>, <<"p","a","y","m","e","n","t","s">> >> }

ConfidenceInputs ==
    { [first |-> a, second |-> b, relevant_tables |-> r] : a \in Candidates, b \in Candidates, r \in RetrievedTables }

ConfidenceInit ==
    /\ max_rows = 1000
    /\ PureInit(ConfidenceInputs)

\* confidence = self._estimate_confidence(sql, relevant_table_names), for two candidates
ApplyConfidence ==
    /\ checked[1].output = <<>>
    /\ checked' = << [checked[1] EXCEPT !.output =
                        << _estimate_confidence(checked[1].input.first, checked[1].input.relevant_tables),
                           _estimate_confidence(checked[1].input.second, checked[1].input.relevant_tables) >>] >>
    /\ UNCHANGED <<managerVars, managerLog, pool>>
    /\ UNCHANGED <<execVars, chainVars, callerVars>>

ConfidenceNext == ApplyConfidence

ConfidenceSpec == ConfidenceInit /\ [][ConfidenceNext]_vars

(* ------------------------------ claims --------------------------------- *)

\* some keyword of the list occurs in q when letter case is ignored
ContainsKeywordAnyCase(q) ==
    \E k \in 1..Len(dangerous_keywords) :
        \E i \in 1..Len(q) :
            /\ i + Len(dangerous_keywords[k]) - 1 <= Len(q)
            /\ \A j \in 1..Len(dangerous_keywords[k]) :
                   LET c == q[i + j - 1]
                   IN  (IF c \in LowerLetters THEN UpperOf[c] ELSE c) = dangerous_keywords[k][j]

\* C1: a query whose text holds DROP, DELETE, INSERT, UPDATE, ALTER, CREATE,
\* TRUNCATE, GRANT, REVOKE or VACUUM in any letter case gets an SQLResult with
\* status "error" from execute, and connector.execute_query is not called for it.
C1_ReadOnlyEnforcement ==
    \A n \in 1..Len(exec_out) :
        ContainsKeywordAnyCase(exec_out[n].query)
            => /\ exec_out[n].result.status = "error"
               /\ exec_out[n].sent = <<>>

\* C1 witness: a query that starts like a read and holds a lower-case keyword was rejected
C1_Witness ==
    /\ exec_out # <<>>
    /\ exec_out[1].query = <<"s","e","l","e","c","t"," ","n","a","m","e"," ","f","r","o","m"," ","u","s","e","r","s"," ">> \o <<" ","d","e","l","e","t","e"," ","f","r","o","m"," ","u","s","e","r","s">>
    /\ exec_out[1].result.status = "error"
    /\ exec_out[1].result.error_message = DangerousMessage[2]

\* _generate_query_with_retry has returned to process
GenerationReturned ==
    \/ pc \in {"check", "validate", "execute", "format"}
    \/ pc = "done" /\ (faults = <<>> \/ faults[1] # "retrieve")

\* C2: process hands at most one query to executor.execute, and only a query for
\* which the full validator.validate returned is_valid = True before; after a null
\* generation or a failed validation nothing is executed.
C2_ExecuteOnlyAfterValidation ==
    /\ Len(exec_calls) <= 1
    /\ \A n \in 1..Len(exec_calls) :
           \E m \in 1..Len(validated) :
               validated[m].query = exec_calls[n] /\ validated[m].is_valid
    /\ generated = <<>> => exec_calls = <<>>
    /\ (\E m \in 1..Len(validated) : ~ validated[m].is_valid) => exec_calls = <<>>
    /\ exec_calls = <<>> => exec_out = <<>>

\* C2 witness: a validated query was executed and the response returned
C2_Witness ==
    /\ pc = "done"
    /\ exec_calls = << <<"S","E","L","E","C","T"," ","*"," ","F","R","O","M"," ","u","s","e","r","s">> >>
    /\ validated = << [query |-> <<"S","E","L","E","C","T"," ","*"," ","F","R","O","M"," ","u","s","e","r","s">>, is_valid |-> TRUE] >>

\* the LLM answered every attempt made so far with the text reply, and no collaborator raised
StubbedWith(reply) ==
    /\ faults = <<>>
    /\ attempts # <<>>
    /\ \A n \in 1..Len(attempts) : attempts[n].reply = reply

\* C3: with the LLM stubbed to answer "DROP TABLE users" and max_retries = 2, process
\* returns the generation-failure response (generated_sql "", confidence 0.0) and
\* neither the executor nor the backend is called.
C3_DropStubGenerationFailure ==
    (pc = "done" /\ max_retries = 2 /\ StubbedWith(DropTableUsers))
        => /\ response[1].generated_sql = <<>>
           /\ response[1].confidence = 0
           /\ response[1].interpretation = "Query generation failed"
           /\ exec_calls = <<>>
           /\ exec_out = <<>>

\* the end-to-end scenario: users(id, name, email) in the schema, the request
\* "show me all users", the fenced reply, a backend that executes what it is given
EndToEndScenario ==
    /\ pc = "done"
    /\ schema_tables = TestSchema
    /\ request = <<"s","h","o","w"," ","m","e"," ","a","l","l"," ","u","s","e","r","s">>
    /\ StubbedWith(FencedSelectUsers)
    /\ exec_out # <<>> => (~ exec_out[1].conn.raises /\ exec_out[1].conn.status = "success")

C5_NoExceptionEscapes ==
    /\ pc # "raised"
    /\ pc = "done" => Len(response) = 1

\* C5 witness: format_for_llm raised after an execution and process still returned a response
C5_Witness ==
    /\ pc = "done"
    /\ faults = <<"format">>
    /\ exec_calls # <<>>
    /\ response[1].interpretation = "Error: Object is not JSON serializable"

AttemptFailed(a) == a.outcome \in {"failed_exception", "failed_invalid"}

\* C7: _generate_query_with_retry makes at most max_retries + 1 attempts, each step
\* of its loop either returns or uses up one attempt, only the last attempt made can
\* be an accepted one, an attempt that raised is a failed attempt followed by the
\* next one, and the null result is returned exactly when all max_retries + 1
\* attempts failed.
C7_RetryTerminates ==
    /\ [](/\ Len(attempts) <= max_retries + 1
          /\ \A n \in 1..(Len(attempts) - 1) : AttemptFailed(attempts[n])
          /\ GenerationReturned
                => /\ generated = <<>>
                      <=> (Len(attempts) = max_retries + 1
                           /\ \A n \in 1..Len(attempts) : AttemptFailed(attempts[n]))
                   /\ generated # <<>> => ~ AttemptFailed(attempts[Len(attempts)]))
    /\ [][pc = "generate" => (pc' = "check" \/ Len(attempts') = Len(attempts) + 1)]_vars

\* C7 witness: the null result after three attempts, the first of which raised
C7_Witness ==
    /\ pc = "check"
    /\ max_retries = 2
    /\ Len(attempts) = 3
    /\ attempts[1].outcome = "failed_exception"
    /\ attempts[3].outcome = "failed_invalid"
    /\ generated = <<>>

\* C8: a query returned by _generate_query_with_retry has confidence >= the threshold
\* or was found valid by QueryValidator.validate in the attempt that produced it.
C8_AcceptedQueries ==
    generated # <<>> =>
        \/ generated[1].confidence >= confidence_threshold
        \/ /\ attempts[Len(attempts)].outcome = "accepted_valid"
           /\ validate(generated[1].query, schema_tables).is_valid

\* C8 witness: a query below the threshold that the validator accepted was returned
C8_Witness ==
    /\ generated # <<>>
    /\ generated[1].confidence < confidence_threshold
    /\ attempts[Len(attempts)].outcome = "accepted_valid"

\* the execute calls made so far that left a record, by their tick
RecordedTicks == (1..now) \ unrecorded

\* the audit history holds at most 100 records: those of the most recently recorded
\* executions, oldest first, each with the query and the status of its execution
RecordedBound ==
    LET h == _execution_history
        \* the recorded executions followed by fewer than 100 recorded executions
        recent == {c \in RecordedTicks :
                      (now - c) - Cardinality({d \in unrecorded : d > c}) < HistoryCap}
    IN  /\ Len(h) <= HistoryCap
        /\ \A i \in 1..(Len(h) - 1) : h[i].timestamp < h[i + 1].timestamp
        /\ {h[i].timestamp : i \in 1..Len(h)} = recent
        /\ \A i \in 1..Len(h) : /\ h[i].query = AuditQuery(h[i].timestamp)
                                /\ h[i].status = IF h[i].timestamp % 2 = 1 THEN "success" ELSE "error"

\* C9: the audit history holds at most 100 records, and they are the records of the
\* most recently recorded executions in execution order; after 150 executions
\* get_execution_history(limit=1000) returns exactly the records of executions 51 to
\* 150 in that order.
C9_AuditHistory ==
    LET got == get_execution_history(_execution_history, 1000)
    IN  /\ RecordedBound
        /\ now = 150 => /\ Len(got) = 100
                        /\ \A i \in 1..100 : got[i].timestamp = 50 + i

\* C9 witness: 150 executions were made, all recorded, and the oldest record kept is
\* the one of execution 51
C9_Witness ==
    /\ now = 150
    /\ unrecorded = {}
    /\ Len(_execution_history) = HistoryCap
    /\ _execution_history[1].timestamp = 51
    /\ _execution_history[HistoryCap].timestamp = 150

\* C10: with several threads inside execute on one executor, the audit buffer never
\* holds more than 100 records, whatever the interleaving of the appends and the trims.
C10_ConcurrentBound == Len(_execution_history) <= HistoryCap

\* C11: get_schema() with default arguments returns the identical cached instance
\* without a connector.get_schema call when a snapshot was fetched at most cache_ttl
\* ago and not invalidated since; otherwise (first call, after invalidate_cache, after
\* TTL expiry) it performs exactly one connector.get_schema call.
C11_CacheCorrectness ==
    (schema_out # <<>> /\ schema_out[1].op = "get_schema") =>
        LET o == schema_out[1]
        IN  /\ o.fresh => /\ o.fetched = 0
                          /\ o.returned # <<>>
                          /\ o.returned[1].id = o.last[1].id
                          /\ o.returned = _schema_cache
            /\ ~ o.fresh => o.fetched = 1

\* C11 witness: the cache expired or was invalidated, one call fetched again, and the
\* call after it is served from the cache
C11_Witness ==
    /\ schema_out # <<>>
    /\ schema_out[1].op = "get_schema"
    /\ schema_out[1].fresh
    /\ schema_out[1].fetched = 0
    /\ fetches.calls >= 2
    /\ schema_out[1].returned[1].id = fetches.calls
    /\ now - _cache_time = cache_ttl

\* C14: with versioning enabled, after any sequence of get_schema, refresh_schema and
\* invalidate_cache calls the version counter equals the number of fetches that returned a
\* catalog (it grows by one per fetch and never decreases), and the history holds at
\* most the last 10 entries, with consecutive, strictly increasing version numbers
\* ending just below the counter.
C14_VersionHistory ==
    LET h == _schema_versions
    IN  /\ _current_version = fetches.returned
        /\ Len(h) = IF fetches.returned < VersionsKept THEN fetches.returned ELSE VersionsKept
        /\ Len(h) <= 10
        /\ \A i \in 1..Len(h) : h[i].version = _current_version - Len(h) + i - 1
        /\ \A i \in 1..(Len(h) - 1) : h[i].version < h[i + 1].version
        /\ get_schema_history(h, 5) = LastN(h, 5)

\* C14 witness: 11 fetches returned a catalog, one raised, and the history was trimmed
C14_Witness ==
    /\ _current_version = 11
    /\ Len(_schema_versions) = 10
    /\ _schema_versions[1].version = 1
    /\ fetches.calls > fetches.returned

\* the values a reader may see together: those before the first refresh, or the
\* snapshot and the cache time stored by one refresh, with the flag it set
ConsistentView(view) ==
    \/ Len(view) < 3
    \/ /\ view[1] = TRUE
       /\ view[2] # <<>>
       /\ \E w \in Threads : <<view[2][1].id, view[3]>> \in threads[w].wrote

\* C12: a thread that calls get_schema while another thread refreshes sees the
\* snapshot, the cache time and the validity flag of one refresh, never a mixture, and
\* it returns the snapshot it saw.
C12_AtomicCacheUpdate ==
    \A t \in Threads :
        /\ ConsistentView(threads[t].view)
        /\ (Len(threads[t].view) = 3 /\ threads[t].returned # <<>>)
               => threads[t].returned = threads[t].view[2]

\* no thread is inside a SchemaManager call
Quiescent == \A t \in Threads : threads[t].pc = "idle"

\* C13: when threads refresh concurrently with versioning enabled, every refresh records
\* a distinct version number and, once the refreshes are done, the counter equals the
\* number of refreshes performed.
C13_AtomicVersionCounter ==
    /\ \A i, j \in 1..Len(_schema_versions) :
           i # j => _schema_versions[i].version # _schema_versions[j].version
    /\ Quiescent => _current_version = fetches.returned

\* C15: once get_connection has exited, normally or by exception, the caller holds no
\* connection, it acquired exactly the connection it was handed (none when the pool timed
\* out, and no further one after the with-block raised), and it returned it exactly once.
C15_ScopedAcquisition ==
    \A t \in Threads :
        (threads[t].pc = "idle" /\ threads[t].exit # "none") =>
            /\ \A c \in DOMAIN pool : pool[c] # t
            /\ threads[t].acquired <= 1
            /\ threads[t].returned = threads[t].acquired

\* the LIMIT n clauses of a text: where they start
LimitClauses(q) == {i \in 1..Len(q) : limit_match_len(upper(q), i) > 0}

\* the numbers of the LIMIT n clauses of a text
LimitValues(q) ==
    { LET u == upper(q)
          ws == run_len(u, i + 5, Whitespace)
          ds == run_len(u, i + 5 + ws, DigitChars)
      IN  int_of(SubSeq(u, i + 5 + ws, i + 4 + ws + ds)) : i \in LimitClauses(q) }

\* C16: _add_result_limit appends " LIMIT max_rows" to a query without a LIMIT clause,
\* rewrites a LIMIT n with n > max_rows to exactly max_rows, leaves a query whose
\* LIMIT n have n <= max_rows unchanged, and applied twice gives what it gives once.
C16_AddResultLimit ==
    checked[1].output # <<>> =>
        LET q == checked[1].input
            once == checked[1].output[1]
            twice == checked[1].output[2]
        IN  /\ LimitClauses(q) = {}
                => endswith(once, <<" ","L","I","M","I","T"," ">> \o str_of(max_rows))
            /\ (\E n \in LimitValues(q) : n > max_rows)
                => \A n \in LimitValues(once) : n <= max_rows
            /\ (LimitClauses(q) # {} /\ \A n \in LimitValues(q) : n <= max_rows)
                => once = q
            /\ twice = once

\* the parts of C16 that hold for every query: a query without the letters LIMIT gets
\* " LIMIT max_rows" appended, a query whose first LIMIT n has n > max_rows has every
\* LIMIT n rewritten to max_rows, one whose first LIMIT n has n <= max_rows is
\* unchanged, and the function is idempotent
LimitStable ==
    checked[1].output # <<>> =>
        LET q == checked[1].input
            once == checked[1].output[1]
            first == MinOf(LimitClauses(strip(q)))
        IN  /\ ~ contains(upper(q), <<"L","I","M","I","T">>)
                => endswith(once, <<" ","L","I","M","I","T"," ">> \o str_of(max_rows))
            /\ LimitClauses(q) # {}
                => IF limit_match_len(upper(strip(q)), first) > 0
                      /\ \E n \in LimitValues(SubSeq(strip(q), first, first + limit_match_len(upper(strip(q)), first) - 1)) :
                             n > max_rows
                   THEN LimitValues(once) = {max_rows}
                   ELSE once = q
            /\ checked[1].output[2] = once

(* ----------------------- claims on the validator ----------------------- *)

\* validate has returned for the query in checked
Validated == checked # <<>> /\ checked[1].output # <<>>

\* the text of error e holds keyword k (the message argument is the only
\* part of an error text that varies with the query)
ErrorNames(e, k) == contains(upper(e.arg), k)

\* C17: validate returns is_valid=False, with an error naming the keyword, for
\* every query that contains any occurrence of DROP, DELETE, INSERT, UPDATE,
\* ALTER, CREATE, TRUNCATE, GRANT, REVOKE or VACUUM.
C17_ValidatorKeywords ==
    Validated =>
        \A i \in 1..Len(dangerous_keywords) :
            contains(upper(checked[1].input), dangerous_keywords[i]) =>
                /\ ~ checked[1].output[1].is_valid
                /\ \E n \in 1..Len(checked[1].output[1].errors) :
                       ErrorNames(checked[1].output[1].errors[n], dangerous_keywords[i])

\* no semicolon, or exactly one that is the last character of the text
OneStatementText(q) ==
    \/ count_char(q, ";") = 0
    \/ count_char(q, ";") = 1 /\ q[Len(q)] = ";"

\* C18: a query passes the syntax check, and so can be valid, only if it
\* contains no semicolon or exactly one semicolon at the very end of the text.
C18_OneStatement ==
    Validated =>
        /\ _validate_syntax(checked[1].input) = <<>> => OneStatementText(checked[1].input)
        /\ checked[1].output[1].is_valid => OneStatementText(checked[1].input)

\* the two comment-based statement-termination patterns of _validate_safety
comment_termination(u) == semicolon_then(u, <<"-","-">>) \/ semicolon_then(u, <<"/","*">>)

SecurityIssueMessages ==
    { "Potential security issue: Comment-based injection attempt",
      "Potential security issue: Block comment injection attempt",
      "Potential security issue: Always-true condition" }

\* the errors of a validation that are not about an injection pattern
OtherFindings(errors) == SelectSeq(errors, LAMBDA e : e.msg \notin SecurityIssueMessages)

\* C19 as stated: a query with a comment-termination pattern, an always-true
\* condition or UNION SELECT, and no other finding, gets is_valid=True.
C19_Original ==
    Validated =>
        LET u == upper(checked[1].input)
            out == checked[1].output[1]
        IN  (comment_termination(u) \/ always_true_condition(u) \/ union_select(u))
            /\ OtherFindings(out.errors) = <<>>
                => out.is_valid

\* the query has none of the findings validate reports apart from UNION SELECT
NothingButUnion(q, tables) ==
    /\ _validate_syntax(q) = <<>>
    /\ _validate_schema_compatibility(q, tables) = <<>>
    /\ \A i \in 1..Len(validator_dangerous_keywords) : ~ contains(upper(q), validator_dangerous_keywords[i])
    /\ ~ comment_termination(upper(q))
    /\ ~ always_true_condition(upper(q))
    /\ Len(q) <= MaxQueryLength

\* C19, amended: a comment-termination pattern or an always-true condition adds
\* a "Potential security issue" error and makes the query invalid; UNION SELECT
\* is only logged as a warning, and a query with UNION SELECT and no other
\* finding gets is_valid=True with no error.
C19_InjectionPatterns ==
    Validated =>
        LET u == upper(checked[1].input)
            out == checked[1].output[1]
        IN  /\ comment_termination(u) \/ always_true_condition(u) =>
                /\ ~ out.is_valid
                /\ \E n \in 1..Len(out.errors) : out.errors[n].msg \in SecurityIssueMessages
            /\ union_select(u) =>
                /\ out.warnings # <<>>
                /\ NothingButUnion(checked[1].input, schema_tables) => out.is_valid /\ out.errors = <<>>

C19_Witness ==
    /\ Validated
    /\ checked[1].input = <<"s","e","l","e","c","t"," ","i","d"," ","f","r","o","m"," ","u","s","e","r","s"," ","u","n","i","o","n"," "," ","s","e","l","e","c","t"," ","u","s","e","r","_","i","d"," ","f","r","o","m"," ","o","r","d","e","r","s">>
    /\ schema_tables = TestSchema
    /\ checked[1].output[1].is_valid
    /\ checked[1].output[1].warnings # <<>>

\* q is "SELECT * FROM " followed by the name in some letter case
SelectsAllFrom(q, name) ==
    /\ startswith(q, SelectAllFrom)
    /\ lower(SubSeq(q, Len(SelectAllFrom) + 1, Len(q))) = lower(name)

\* C20 as stated: for every table t of the snapshot, in any letter case,
\* validate on "SELECT * FROM t" returns is_valid=True with an empty error
\* list; is_valid is True exactly when the error list is empty.
C20_Original ==
    Validated =>
        LET out == checked[1].output[1]
        IN  /\ out.is_valid <=> out.errors = <<>>
            /\ \A i \in 1..Len(schema_tables) :
                   SelectsAllFrom(checked[1].input, schema_tables[i].table_name) =>
                       out.is_valid /\ out.errors = <<>>

\* a non-empty name of word characters that holds no keyword of the validator
PlainName(name) ==
    /\ name # <<>>
    /\ \A i \in 1..Len(name) : name[i] \in WordChars
    /\ \A i \in 1..Len(validator_dangerous_keywords) : ~ contains(upper(name), validator_dangerous_keywords[i])

\* C20, amended: for every table t of the snapshot whose name is made of word
\* characters only and holds none of DROP, DELETE, INSERT, UPDATE, ALTER,
\* CREATE in any letter case, validate on "SELECT * FROM t" (within the length
\* cap), in any letter case, returns is_valid=True with an empty error list;
\* is_valid is True exactly when the error list is empty.
C20_KnownTable ==
    Validated =>
        LET out == checked[1].output[1]
        IN  /\ out.is_valid <=> out.errors = <<>>
            /\ \A i \in 1..Len(schema_tables) :
                   /\ SelectsAllFrom(checked[1].input, schema_tables[i].table_name)
                   /\ PlainName(schema_tables[i].table_name)
                   /\ Len(checked[1].input) <= MaxQueryLength
                   => out.is_valid /\ out.errors = <<>>

C20_Witness ==
    /\ Validated
    /\ schema_tables = CatalogSchema
    /\ checked[1].input = <<"S","E","L","E","C","T"," ","*"," ","F","R","O","M"," ","A","C","C","O","U","N","T","S">>
    /\ checked[1].output[1].is_valid
    /\ checked[1].output[1].errors = <<>>

(* ------------------ claims on the validator's effects ------------------ *)

\* C21: validate has no side effect apart from logging: a call leaves the cached
\* snapshot, the cache time and validity flag, the version counter and the
\* history unchanged and issues no backend query, whatever the state of the cache.
C21_ValidatePure ==
    (checked # <<>> /\ checked[1].op = "validate") => checked[1].before = checked[1].after

(* ------------------- claims on the per-table cache --------------------- *)

\* C28: get_table_schema(name) with lazy loading returns the table called name
\* of the current cached snapshot, None when that snapshot has no such table,
\* and never a table object of a snapshot that has been replaced.
C28_CurrentTable ==
    (/\ checked # <<>>
     /\ checked[1].op = "get_table_schema"
     /\ checked[1].lazy_load
     /\ ~ checked[1].raised)
        => /\ checked[1].cache # <<>>
           /\ checked[1].output = table_named(checked[1].cache[1], checked[1].input)

(* ------------------- claims on a failed catalog fetch ------------------ *)

\* the step is a get_schema or refresh_schema call whose connector.get_schema
\* returned the empty catalog {"tables": {}} of a failed catalog query
FailedFetchStep ==
    /\ fetches'.calls = fetches.calls + 1
    /\ schema_out' # <<>>
    /\ ~ schema_out'[1].raised
    /\ schema_out'[1].returned[1].tables = EmptySchema

\* C29: when the catalog fetch fails (connector.get_schema returns the empty
\* catalog), get_schema leaves the cached snapshot, the cache validity and the
\* version counter as they were, and does not cache an empty snapshot.
C29_FailedFetchKeepsState ==
    [][FailedFetchStep => UNCHANGED <<_schema_cache, _cache_valid, _current_version>>]_vars

\* C30: an invalidate_cache() call made while another thread's refresh is in flight
\* is not lost: a get_schema call that starts once that refresh has completed,
\* with no fetch made since the invalidation, does not return the cached snapshot.
C30_InvalidationNotLost ==
    \A t \in Threads :
        (threads[t].forced # <<>> /\ threads[t].hit) =>
            /\ threads[t].returned # <<>>
            /\ threads[t].returned[1].id > threads[t].forced[1]

(* ------------------ claims on the executor's failures ------------------ *)

\* the execute call failed: the executor's own validation rejected the query,
\* the connector reported a backend error, or the connector raised
ExecutionFailed(call) ==
    \/ call.sent = <<>>
    \/ call.conn.raises
    \/ call.conn.status = "error"

\* C22: execute never raises: a rejection by its own validation, a backend error
\* reported by the connector and an unexpected exception each produce an
\* SQLResult with status "error" and a non-empty error_message; any other call
\* returns the connector's success.
C22_ExecuteNeverRaises ==
    \A n \in 1..Len(exec_out) :
        IF ExecutionFailed(exec_out[n])
        THEN /\ exec_out[n].result.status = "error"
             /\ exec_out[n].result.error_message # None
             /\ exec_out[n].result.error_message # ""
        ELSE exec_out[n].result.status = "success"

\* C22 witness: the connector raised on a query that passed the validation, and
\* execute returned an error result
C22_Witness ==
    /\ exec_out # <<>>
    /\ exec_out[1].sent # <<>>
    /\ exec_out[1].conn.raises
    /\ exec_out[1].result.status = "error"
    /\ exec_out[1].result.error_message = "Unexpected error: connection already closed"

(* -------------------- claims on the audit history ---------------------- *)

\* C26: get_execution_history(limit) is a bounded accessor: for every limit >= 0
\* and every history it returns at most limit records, and they are the limit
\* most recent ones in execution order.
C26_BoundedAccessor ==
    \A n \in 1..Len(exec_out) :
        LET h == exec_out[n].history
            got == exec_out[n].result
            k == IF exec_out[n].limit < Len(h) THEN exec_out[n].limit ELSE Len(h)
        IN  /\ Len(got) <= exec_out[n].limit
            /\ Len(got) = k
            /\ \A i \in 1..Len(got) : got[i] = h[Len(h) - Len(got) + i]

\* C27: every call to execute appends exactly one ExecutionRecord to the audit
\* buffer, whichever path it takes: success, backend error, rejection by the
\* executor's own validation, or unexpected exception.
C27_OneRecordPerCall ==
    exec_out # <<>> =>
        _execution_history = << ExecutionRecord(exec_out[1].query, exec_out[1].result, now) >>

(* ------------------- claims on the result statuses --------------------- *)

\* C24: every SQLResult the pipeline produces, the query_result of every
\* response of process included, has status "success" or "error".
C24_ResultStatus ==
    /\ \A n \in 1..Len(exec_out) : exec_out[n].result.status \in {"success", "error"}
    /\ \A n \in 1..Len(response) : response[n].query_result.status \in {"success", "error"}

(* ------------------- claims on the schema context ---------------------- *)

\* the line of get_schema_context for a table
ContextLine(table) == table.table_name \o <<":"," ">> \o join_columns(table.columns) \o <<"\n">>

\* every table of the snapshot has its line in the text
AllTablesListed(text, tables) == \A i \in 1..Len(tables) : contains(text, ContextLine(tables[i]))

\* C25: get_schema_context(max_length) returns a text of at most max_length
\* characters; when tables are left out it ends with the marker
\* "... (truncated)"; the same schema and max_length always give the same text.
C25_SchemaContext ==
    (checked # <<>> /\ checked[1].output # <<>>) =>
        LET text == checked[1].output[1]
        IN  /\ Len(text) <= checked[1].input
            /\ ~ AllTablesListed(text, schema_tables) => endswith(text, TruncationMarker)
            /\ checked[1].output[2] = text

(* ------------------- claims on the confidence score -------------------- *)

BeginsWithSelect(sql) == startswith(upper(sql), <<"S","E","L","E","C","T">>)

ContainsFrom(sql) == contains(upper(sql), <<"F","R","O","M">>)

\* how many of the retrieved tables the candidate names
TablesReferenced(sql, tables) ==
    Cardinality({ i \in 1..Len(tables) : contains(upper(sql), upper(tables[i])) })

HasCommentMarker(sql) == contains(sql, <<"-","-">>) \/ contains(sql, <<"/","*">>)

\* the candidate begins with SELECT, references all retrieved tables and contains FROM
FullCandidate(sql, tables) ==
    /\ BeginsWithSelect(sql)
    /\ TablesReferenced(sql, tables) = Len(tables)
    /\ ContainsFrom(sql)

\* 0.5 + 0.2 + 0.15 * fraction + 0.1 - 0.1, each term when its test holds, in thousandths
ExpectedScore(sql, tables) ==
    LET raw == 500 + (IF BeginsWithSelect(sql) THEN 200 ELSE 0)
                   + (150 * TablesReferenced(sql, tables)) \div Len(tables)
                   + (IF ContainsFrom(sql) THEN 100 ELSE 0)
                   - (IF HasCommentMarker(sql) THEN 100 ELSE 0)
    IN  IF raw < 0 THEN 0 ELSE IF raw > ConfidenceUnit THEN ConfidenceUnit ELSE raw

\* C23: for a non-empty list of retrieved tables, a candidate that begins with
\* SELECT, references all retrieved tables and contains FROM scores strictly
\* higher than a candidate that lacks one of the three and is alike in its
\* comment markers; the score is 0.5 + 0.2 + 0.15 * (fraction of retrieved
\* tables referenced) + 0.1 - 0.1 (comment markers), within [0, 1].
C23_ConfidenceOrder ==
    (checked # <<>> /\ checked[1].output # <<>>) =>
        LET a == checked[1].input.first
            b == checked[1].input.second
            tables == checked[1].input.relevant_tables
            score == checked[1].output
        IN  /\ score[1] = ExpectedScore(a, tables)
            /\ score[2] = ExpectedScore(b, tables)
            /\ score[1] \in 0..ConfidenceUnit
            /\ (/\ FullCandidate(a, tables)
                /\ ~ FullCandidate(b, tables)
                /\ HasCommentMarker(a) = HasCommentMarker(b))
                   => score[1] > score[2]

\* C23 witness: with users and orders retrieved, the join of both scored 0.95
\* and the query on users alone 0.875
C23_Witness ==
    /\ checked # <<>>
    /\ checked[1].output = << 950, 875 >>
    /\ checked[1].input.first = <<"S","E","L","E","C","T"," ","*"," ","F","R","O","M"," ","u","s","e","r","s"," ","J","O","I","N"," ","o","r","d","e","r","s"," ","O","N"," ","u","s","e","r","s",".","i","d"," ","="," ","o","r","d","e","r","s",".","u","s","e","r","_","i","d">>
    /\ checked[1].input.second = <<"S","E","L","E","C","T"," ","*"," ","F","R","O","M"," ","u","s","e","r","s">>
    /\ checked[1].input.relevant_tables = << <<"u","s","e","r","s">>, <<"o","r","d","e","r","s">> >>

====
